---- MODULE Spec2Model ----
(***************************************************************************)
(* A model of the SENTINEL detection pipeline of this repository:          *)
(*   FeatureEngineer -> Predictor -> AlertCreator -> CaseBuilder           *)
(* (src/django/api/ml_data/services/*.py and src/django/api/ml_data/       *)
(* pipeline.py).  Each service is modelled by operators that compute what  *)
(* the Python code computes, and by one specification per service whose    *)
(* initial states draw the service's input from bounded sets and whose     *)
(* actions run the service's public methods.                               *)
(*                                                                         *)
(* Numbers.  Scores, thresholds and amounts are exact: a real number is    *)
(* held as an integer in a stated unit or as a fraction <<num, den>> with  *)
(* den > 0, and comparisons cross-multiply.  Floating-point rounding of    *)
(* the Python code is not modelled.                                        *)
(***************************************************************************)
EXTENDS Integers, Sequences, FiniteSets, TLC

VARIABLES
    pc,             \* where the run is: "ready" before the call, then the call made
    \* ---- CaseBuilder (services/case_builder.py)
    alerts,         \* the batch handed to CaseBuilder.build_cases
    set_order,      \* iteration order of a Python set of fraud types in this run
    cases,          \* the list build_cases returned
    \* ---- AlertCreator (services/alert_creator.py)
    scored_df,      \* the table handed to AlertCreator.create_alerts
    created,        \* the list create_alerts returned
    row,            \* the row handed to AlertCreator._infer_fraud_type
    inferred,       \* the tuple _infer_fraud_type returned
    \* ---- Predictor (services/predictor.py) and Pipeline (pipeline.py)
    artifact,       \* the pickled artifact on disk
    predictor,      \* the Predictor object's fields, or None before construction
    features_df,    \* the feature table to be scored
    call,           \* the last call made: who called predict, with which override
    result,         \* what the last predict call produced, or None
    steps,          \* the statements of predict executed by the last call
    stage_log,      \* the stages of Pipeline.run that completed, in order
    output,         \* what the run wrote to the output directory
    \* ---- FeatureEngineer (services/feature_engineer.py)
    transactions_df,  \* the loaded transaction table
    computed,         \* the table compute_features returned for it
    source_df,        \* the rows of demo_data.csv that extract_events reads
    files,            \* the four JSON files of the input directory
    profiles_df,      \* the loaded profile table
    auth_events_df,   \* the loaded auth event table
    network_events_df,  \* the loaded network event table
    previous,         \* the table the call of compute_features before the last returned
    fe_error          \* the exception a FeatureEngineer call raised, "" when none

vars == <<pc, alerts, set_order, cases, scored_df, created, row, inferred,
          artifact, predictor, features_df, call, result, steps, stage_log, output,
          transactions_df, computed, source_df, files, profiles_df, auth_events_df,
          network_events_df, previous, fe_error>>

cbVars   == <<alerts, set_order, cases>>
acVars   == <<scored_df, created, row, inferred>>
predVars == <<artifact, predictor, features_df, call, result, steps, stage_log, output>>
feVars   == <<transactions_df, computed, source_df, files, profiles_df, auth_events_df,
             network_events_df, previous, fe_error>>

\* Python's None
None == "None"

----------------------------------------------------------------------------
(* Bounds of the model *)

\* longest alert batch handed to build_cases
MaxAlerts == 3

\* most rows of a scored table handed to create_alerts
MaxRows == 2

\* most rows of a feature table handed to predict
MaxBatch == 3

\* most transactions loaded into the FeatureEngineer
MaxTxns == 3

\* longest batch of alerts whose confidences are under study
MaxScored == 5

\* longest batch of alerts whose users and devices have generated names
MaxRing == 4

\* most rows of the source table of extract_events
MaxSource == 2

\* most transactions and most profile records of a join
MaxJoin == 2
MaxProfiles == 2

\* most transactions of a table whose windowed sums are under study
MaxWindow == 3

----------------------------------------------------------------------------
(* Exact fractions: <<num, den>> with den > 0 stands for num / den *)

Frac(n, d) == <<n, d>>

----------------------------------------------------------------------------
(* Sequence helpers *)

Range(s) == {s[i] : i \in 1..Len(s)}

\* every sequence over S of length 0..n
SeqsUpTo(S, n) == UNION {[1..k -> S] : k \in 0..n}

\* the distinct values of s, in order of first appearance (the key order of a
\* dict filled while iterating s)
RECURSIVE FirstSeen(_)
FirstSeen(s) ==
    IF s = <<>> THEN <<>>
    ELSE LET front == FirstSeen(SubSeq(s, 1, Len(s) - 1))
             last  == s[Len(s)]
         IN  IF last \in Range(front) THEN front ELSE Append(front, last)

RECURSIVE SumSeq(_)
SumSeq(s) == IF s = <<>> THEN 0 ELSE Head(s) + SumSeq(Tail(s))

\* number of i with s[i] = x  (list.count)
Count(s, x) == Cardinality({i \in 1..Len(s) : s[i] = x})

\* str.upper() on the characters used
UpperChar(c) ==
    CASE c = "r" -> "R" [] c = "i" -> "I" [] c = "n" -> "N" [] c = "g" -> "G"
      [] c = "m" -> "M" [] c = "u" -> "U" [] c = "l" -> "L" [] c = "t" -> "T"
      [] c = "o" -> "O" [] c = "k" -> "K" [] c = "w" -> "W"
      [] OTHER -> c
Upper(s) == [i \in 1..Len(s) |-> UpperChar(s[i])]

\* s[:n] and s[-n:] of a string s
FirstChars(s, n) == SubSeq(s, 1, IF Len(s) < n THEN Len(s) ELSE n)
LastChars(s, n)  == SubSeq(s, IF Len(s) < n THEN 1 ELSE Len(s) - n + 1, Len(s))

----------------------------------------------------------------------------
(* CaseBuilder: services/case_builder.py *)

\* the users, accounts, devices and inferred types the modelled alerts carry
CBUsers    == {"USR_A", "USR_B"}
CBAccounts == {"ACC_1", "ACC_2"}
CBDevices  == {"unknown", "DEV_X", "DEV_Y"}
CBTypes    == {"fraud_ring", "account_takeover"}

\* alert_id of the i-th alert of a batch: AlertCreator makes it from the
\* transaction's txn_id, which is unique
AlertId(i) == i

\* the confidence, in thousandths, of the alerts of a batch whose scores are
\* not under study
CBConfidences == {500}

\* USR_A is the user with two accounts, USR_B has one
AlertBody == {b \in [user_id : CBUsers, account_id : CBAccounts,
                       fraud_type_inferred : CBTypes, device_id : CBDevices,
                       confidence : CBConfidences] :
                 b.user_id = "USR_B" => b.account_id = "ACC_1"}

MkAlert(i, b) ==
    [alert_id |-> AlertId(i), user_id |-> b.user_id, account_id |-> b.account_id,
     fraud_type_inferred |-> b.fraud_type_inferred,
     confidence |-> b.confidence,
     evidence |-> [device_id |-> b.device_id]]

\* the batches of alerts with pairwise distinct alert_ids
Batches == {[i \in 1..Len(bs) |-> MkAlert(i, bs[i])] : bs \in SeqsUpTo(AlertBody, MaxAlerts)}

\* the orders in which a Python set of fraud types may be iterated (string
\* hashing is randomised per process)
SetOrders == {o \in [1..Cardinality(CBTypes) -> CBTypes] : Range(o) = CBTypes}

\* alert.get("evidence", {}).get("device_id", "unknown")
DeviceOf(a) ==
    IF "device_id" \in DOMAIN a.evidence THEN a.evidence.device_id ELSE "unknown"

\* Identifiers are strings; Chars gives the characters of each identifier the
\* model uses, so that slicing and upper() are computed on them.  The second
\* group are identifiers in the formats of data_generator.py.
Chars(id) ==
    CASE id = "USR_A" -> <<"U", "S", "R", "_", "A">>
      [] id = "USR_B" -> <<"U", "S", "R", "_", "B">>
      [] id = "DEV_X" -> <<"D", "E", "V", "_", "X">>
      [] id = "DEV_Y" -> <<"D", "E", "V", "_", "Y">>
      [] id = "unknown" -> <<"u", "n", "k", "n", "o", "w", "n">>
      [] id = "U-RING-01-001" ->
            <<"U", "-", "R", "I", "N", "G", "-", "0", "1", "-", "0", "0", "1">>
      [] id = "U-RING-01-002" ->
            <<"U", "-", "R", "I", "N", "G", "-", "0", "1", "-", "0", "0", "2">>
      [] id = "U-NORM-0001" -> <<"U", "-", "N", "O", "R", "M", "-", "0", "0", "0", "1">>
      [] id = "u-norm-0002" -> <<"u", "-", "n", "o", "r", "m", "-", "0", "0", "0", "2">>
      [] id = "DEV-RING-01" -> <<"D", "E", "V", "-", "R", "I", "N", "G", "-", "0", "1">>
      [] id = "DEV-RING-02" -> <<"D", "E", "V", "-", "R", "I", "N", "G", "-", "0", "2">>

\* the calendar date of the run, as strftime('%Y%m%d') prints it
Today == <<"2", "0", "2", "6", "1", "1", "0", "1">>

\* case_builder.py 186: f"CASE-{date}-{case_suffix[:12].upper()}"
case_id(case_suffix) ==
    <<"C", "A", "S", "E", "-">> \o Today \o <<"-">> \o Upper(FirstChars(case_suffix, 12))

\* a wrong bonus: 5 points per alert without the cap
alert_factor_mut(n) == n * 5

\* case_builder.py 158: alert_factor * 100, the points added for the number of
\* alerts
alert_factor(n) == IF n * 5 < 20 THEN n * 5 ELSE 20

\* case_builder.py 159: (avg_score + max_score) / 2 * 100 + alert_factor * 100 for
\* confidences in thousandths, as an exact fraction
ScoreBeforeCap(scores) ==
    LET n == Len(scores)
        max_score == CHOOSE m \in Range(scores) : \A y \in Range(scores) : y <= m
    IN  Frac(SumSeq(scores) + n * max_score + 20 * n * alert_factor(n), 20 * n)

\* min(95, q)
Cap95(q) == IF q[1] > 95 * q[2] THEN Frac(95, 1) ELSE q

\* int(q) for q >= 0: the fraction is cut off
IntOf(q) == q[1] \div q[2]

\* case_builder.py 153-159
case_score(scores) ==
    IF scores = <<>> THEN IntOf(Cap95(Frac(alert_factor(0), 1)))
    ELSE IntOf(Cap95(ScoreBeforeCap(scores)))

\* wrong limits: a score equal to a level's lower limit is one level down
risk_level_mut(score) ==
    IF score > 80 THEN "CRITICAL"
    ELSE IF score > 60 THEN "HIGH"
    ELSE IF score > 40 THEN "MEDIUM"
    ELSE "LOW"

\* case_builder.py 162-169
risk_level(score) ==
    IF score >= 80 THEN "CRITICAL"
    ELSE IF score >= 60 THEN "HIGH"
    ELSE IF score >= 40 THEN "MEDIUM"
    ELSE "LOW"

\* case_builder.py 144-218: the fields of a case that come from its alerts
_build_single_case(as, fraud_type, case_suffix) ==
    LET score == case_score([i \in 1..Len(as) |-> as[i].confidence])
        level == risk_level(score)
    IN  [case_id     |-> case_id(case_suffix),
         case_suffix |-> case_suffix,
         case_score  |-> score,
         risk_level  |-> level,
         priority    |-> level,
         fraud_type  |-> fraud_type,
         user_id     |-> IF fraud_type = "fraud_ring"
                         THEN {as[i].user_id : i \in 1..Len(as)}
                         ELSE {as[1].user_id},
         account_id  |-> as[1].account_id,
         alert_ids   |-> [i \in 1..Len(as) |-> as[i].alert_id],
         alert_count |-> Len(as),
         ring_members |-> {}, shared_device |-> None, accounts_involved |-> {}]

\* a wrong grouping: the placeholder device is a device group like any other
DeviceKeys_mut(as) == FirstSeen([i \in 1..Len(as) |-> DeviceOf(as[i])])

\* case_builder.py 70-74: device_groups, keys in insertion order; alerts whose
\* device is "unknown" are in no group
DeviceKeys(as) ==
    FirstSeen(SelectSeq([i \in 1..Len(as) |-> DeviceOf(as[i])], LAMBDA d : d # "unknown"))

DeviceAlerts(as, d) == SelectSeq(as, LAMBDA a : DeviceOf(a) = d)

UniqueUsers(as) == {as[i].user_id : i \in 1..Len(as)}

\* a wrong ring test: any device with an alert is a ring
IsRing_mut(device_alerts) == Cardinality(UniqueUsers(device_alerts)) > 0

\* case_builder.py 78-80: a device group is a ring when it has more than one user
IsRing(device_alerts) == Cardinality(UniqueUsers(device_alerts)) > 1

\* a wrong ring case: it is built from the first alert on the device only
RingCase_mut(d, device_alerts) ==
    [_build_single_case(<<device_alerts[1]>>, "fraud_ring",
                        <<"R", "I", "N", "G", "-">> \o LastChars(Chars(d), 8))
        EXCEPT !.ring_members = UniqueUsers(device_alerts),
               !.shared_device = d]

\* case_builder.py 82-90
RingCase(d, device_alerts) ==
    [_build_single_case(device_alerts, "fraud_ring",
                        <<"R", "I", "N", "G", "-">> \o LastChars(Chars(d), 8))
        EXCEPT !.ring_members = UniqueUsers(device_alerts),
               !.shared_device = d]

\* case_builder.py 56-96: (cases, processed_ids)
RECURSIVE RingLoop(_, _, _, _)
RingLoop(as, keys, acc, processed_ids) ==
    IF keys = <<>> THEN [cases |-> acc, processed_ids |-> processed_ids]
    ELSE LET d  == Head(keys)
             da == DeviceAlerts(as, d)
         IN  IF IsRing(da)
             THEN RingLoop(as, Tail(keys), Append(acc, RingCase(d, da)),
                           processed_ids \cup {da[i].alert_id : i \in 1..Len(da)})
             ELSE RingLoop(as, Tail(keys), acc, processed_ids)

_build_fraud_ring_cases(as, processed_ids) ==
    RingLoop(as, DeviceKeys(as), <<>>, processed_ids)

\* a wrong filter: pass 2 forgets which alerts pass 1 consumed
Unprocessed_mut(as, processed_ids) == as

\* case_builder.py 113-115: the alerts pass 2 groups
Unprocessed(as, processed_ids) ==
    SelectSeq(as, LAMBDA a : a.alert_id \notin processed_ids)

\* case_builder.py 123-124: max(set(fraud_types), key=fraud_types.count) returns
\* the first value, in the set's iteration order, with the largest count
MostFrequent(fraud_types, order) ==
    LET present == SelectSeq(order, LAMBDA t : t \in Range(fraud_types))
        best    == CHOOSE i \in 1..Len(present) :
                     /\ \A j \in 1..Len(present) :
                           Count(fraud_types, present[j]) <= Count(fraud_types, present[i])
                     /\ \A j \in 1..(i - 1) :
                           Count(fraud_types, present[j]) < Count(fraud_types, present[i])
    IN  present[best]

UniqueAccounts(as) == {as[i].account_id : i \in 1..Len(as)}

\* a wrong type rule: the majority type is kept even across accounts
PrimaryType_mut(user_alerts, order) ==
    MostFrequent([i \in 1..Len(user_alerts) |-> user_alerts[i].fraud_type_inferred], order)

\* case_builder.py 122-129
PrimaryType(user_alerts, order) ==
    IF Cardinality(UniqueAccounts(user_alerts)) > 1
    THEN "multi_account_fraud"
    ELSE MostFrequent([i \in 1..Len(user_alerts) |-> user_alerts[i].fraud_type_inferred], order)

\* case_builder.py 131-140
UserCase(u, user_alerts, order) ==
    LET primary_type == PrimaryType(user_alerts, order)
        case == _build_single_case(user_alerts, primary_type, Chars(u))
    IN  IF primary_type = "multi_account_fraud"
        THEN [case EXCEPT !.accounts_involved = UniqueAccounts(user_alerts)]
        ELSE case

\* case_builder.py 98-142
_build_user_cases(as, processed_ids, order) ==
    LET rest == Unprocessed(as, processed_ids)
        keys == FirstSeen([i \in 1..Len(rest) |-> rest[i].user_id])
    IN  [k \in 1..Len(keys) |->
            UserCase(keys[k], SelectSeq(rest, LAMBDA a : a.user_id = keys[k]), order)]

\* case_builder.py 28-54
build_cases(as, order) ==
    IF as = <<>> THEN <<>>
    ELSE LET rings == _build_fraud_ring_cases(as, {})
         IN  rings.cases \o _build_user_cases(as, rings.processed_ids, order)

CBIdle == /\ alerts = <<>>
          /\ set_order = <<>>
          /\ cases = <<>>

CBInit == /\ pc = "ready"
          /\ alerts \in Batches
          /\ set_order \in SetOrders
          /\ cases = <<>>

\* confidences of alerts, in thousandths (AlertCreator rounds to 3 places)
ScoreConfidences == {0, 350, 456, 550, 750, 1000}

\* batches of alerts of one user, on no known device, with these confidences
ScoreBatches ==
    {[i \in 1..Len(cs) |->
         MkAlert(i, [user_id |-> "USR_A", account_id |-> "ACC_1",
                     fraud_type_inferred |-> "account_takeover",
                     device_id |-> "unknown", confidence |-> cs[i]])] :
        cs \in SeqsUpTo(ScoreConfidences, MaxScored)}

\* users and devices named as data_generator.py names them
RingUsers   == {"U-RING-01-001", "U-RING-01-002", "U-NORM-0001", "u-norm-0002"}
RingDevices == {"DEV-RING-01", "DEV-RING-02", "unknown"}

\* batches of alerts of these users on these devices
RingBatches ==
    {[i \in 1..Len(bs) |->
         MkAlert(i, [user_id |-> bs[i][1], account_id |-> "ACC_1",
                     fraud_type_inferred |-> "account_takeover",
                     device_id |-> bs[i][2], confidence |-> 500])] :
        bs \in SeqsUpTo(RingUsers \X RingDevices, MaxRing)}

\* all alerts of these batches carry one inferred type, so the iteration
\* order of the set of types cannot matter: one order is taken
RingInit == /\ pc = "ready"
            /\ alerts \in RingBatches
            /\ set_order = <<"fraud_ring", "account_takeover">>
            /\ cases = <<>>

\* an alert whose evidence has no device_id
WithoutDeviceId(a) == [a EXCEPT !.evidence = [ip_address |-> "unknown"]]

\* batches of alerts of two users on one account whose evidence names a
\* device, names the placeholder "unknown" or has no device_id at all
DeviceBatches ==
    {[i \in 1..Len(bs) |->
         LET a == MkAlert(i, [user_id |-> bs[i][1], account_id |-> "ACC_1",
                              fraud_type_inferred |-> bs[i][3],
                              device_id |-> IF bs[i][2] = "absent" THEN "unknown" ELSE bs[i][2],
                              confidence |-> 500])
         IN  IF bs[i][2] = "absent" THEN WithoutDeviceId(a) ELSE a] :
        bs \in SeqsUpTo(CBUsers \X {"absent", "unknown", "DEV_X"} \X CBTypes, MaxAlerts)}

DeviceInit == /\ pc = "ready"
              /\ alerts \in DeviceBatches
              /\ set_order = <<"fraud_ring", "account_takeover">>
              /\ cases = <<>>

ScoreInit == /\ pc = "ready"
             /\ alerts \in ScoreBatches
             /\ set_order \in SetOrders
             /\ cases = <<>>

\* CaseBuilder().build_cases(alerts)
BuildCases ==
    /\ pc = "ready"
    /\ pc' = "built"
    /\ cases' = build_cases(alerts, set_order)
    /\ UNCHANGED <<alerts, set_order, acVars, predVars, feVars>>

----------------------------------------------------------------------------
(* Exact fractions *)

\* num/den > h/100
GtHundredths(q, h) == q[1] * 100 > h * q[2]

\* round(q, 3) in thousandths, ties to even as Python's round
RoundThousandths(q) ==
    LET n == q[1] * 1000
        f == n \div q[2]
        r == n % q[2]
    IN  IF 2 * r > q[2] THEN f + 1
        ELSE IF 2 * r < q[2] THEN f
        ELSE IF f % 2 = 0 THEN f ELSE f + 1

----------------------------------------------------------------------------
(* AlertCreator: services/alert_creator.py *)

\* A user_id is a string, held as its sequence of characters so that
\* str(user_id).upper() and the substring test are computed, not assumed.
UID_plain == <<"u", "7">>
UID_ring  == <<"R", "I", "N", "G", "1">>
UID_ringl == <<"u", "r", "i", "n", "g">>
UID_multi == <<"m", "u", "l", "t", "i">>
UID_both  == <<"M", "U", "L", "T", "I", "R", "I", "N", "G">>
UID_near  == <<"R", "I", "N", "M", "U", "L", "T">>
UserIds == {UID_plain, UID_ring, UID_ringl, UID_multi, UID_both, UID_near}

\* sub in s
Contains(sub, s) ==
    \E k \in 0..(Len(s) - Len(sub)) : \A i \in 1..Len(sub) : s[k + i] = sub[i]

\* a float column value: a number, or NaN (a missing value)
Num(x) == [nan |-> FALSE, v |-> x]
NaN    == [nan |-> TRUE, v |-> 0]

\* alert_creator.py 77: "RING" in str(row.get("user_id", "")).upper()
ring_pattern(r) == Contains(<<"R", "I", "N", "G">>, Upper(r.user_id))

\* alert_creator.py 81: "MULTI" in str(row.get("user_id", "")).upper()
multi_pattern(r) == Contains(<<"M", "U", "L", "T", "I">>, Upper(r.user_id))

\* alert_creator.py 85-89
ato_rule(r) ==
    r.failed_login_1h >= 3 \/ (r.geo_change_1d = 1 /\ r.new_ip_1d = 1)

\* a wrong boundary: a ratio of exactly 0.5 fires the rule
income_rule_mut(r) ==
    /\ ~r.declared_income.nan
    /\ r.declared_income.v > 0
    /\ 2 * r.amount >= r.declared_income.v

\* alert_creator.py 93-95: income > 0 and (amount / income) > 0.5; a NaN income
\* compares False
income_rule(r) ==
    /\ ~r.declared_income.nan
    /\ r.declared_income.v > 0
    /\ 2 * r.amount > r.declared_income.v

\* alert_creator.py 99-100
geo_rule(r) == r.is_cross_border = 1 /\ r.geo_change_1d = 1

\* alert_creator.py 104-107
flow_rule(r) == r.amount_in_1d > 5000 /\ r.amount_out_1d > 5000

\* alert_creator.py 111
structuring_rule(r) == 8000 <= r.amount /\ r.amount <= 9999

\* a wrong order: the income rule is tried before the account-takeover rule
_infer_fraud_type_mut(r) ==
    IF ring_pattern(r) THEN <<"fraud_ring", "NETWORK", "COORDINATED_ACTIVITY">>
    ELSE IF multi_pattern(r)
         THEN <<"multi_account_fraud", "TRANSACTION", "MULTI_ACCOUNT_LAYERING">>
    ELSE IF income_rule(r)
         THEN <<"income_anomaly", "BEHAVIOR", "INCOME_EXCEEDS_DECLARATION">>
    ELSE IF ato_rule(r) THEN <<"account_takeover", "ATO", "SUSPICIOUS_LOGIN_PATTERN">>
    ELSE IF geo_rule(r) THEN <<"geo_anomaly", "BEHAVIOR", "IMPOSSIBLE_TRAVEL">>
    ELSE IF flow_rule(r) THEN <<"money_mule", "TRANSACTION", "RAPID_FUND_MOVEMENT">>
    ELSE IF structuring_rule(r) THEN <<"money_mule", "TRANSACTION", "STRUCTURING_PATTERN">>
    ELSE <<"behavioral_anomaly", "BEHAVIOR", "ML_ANOMALY_DETECTED">>

\* alert_creator.py 70-115: (fraud_type, detector_type, signal)
_infer_fraud_type(r) ==
    IF ring_pattern(r) THEN <<"fraud_ring", "NETWORK", "COORDINATED_ACTIVITY">>
    ELSE IF multi_pattern(r)
         THEN <<"multi_account_fraud", "TRANSACTION", "MULTI_ACCOUNT_LAYERING">>
    ELSE IF ato_rule(r) THEN <<"account_takeover", "ATO", "SUSPICIOUS_LOGIN_PATTERN">>
    ELSE IF income_rule(r)
         THEN <<"income_anomaly", "BEHAVIOR", "INCOME_EXCEEDS_DECLARATION">>
    ELSE IF geo_rule(r) THEN <<"geo_anomaly", "BEHAVIOR", "IMPOSSIBLE_TRAVEL">>
    ELSE IF flow_rule(r) THEN <<"money_mule", "TRANSACTION", "RAPID_FUND_MOVEMENT">>
    ELSE IF structuring_rule(r) THEN <<"money_mule", "TRANSACTION", "STRUCTURING_PATTERN">>
    ELSE <<"behavioral_anomaly", "BEHAVIOR", "ML_ANOMALY_DETECTED">>

\* a wrong boundary: a score equal to a bucket's lower limit is in the bucket
_calculate_severity_mut(score) ==
    IF score[1] * 100 >= 70 * score[2] THEN "CRITICAL"
    ELSE IF score[1] * 100 >= 50 * score[2] THEN "HIGH"
    ELSE IF score[1] * 100 >= 30 * score[2] THEN "MEDIUM"
    ELSE "LOW"

\* a wrong limit: MEDIUM starts above 0.35
_calculate_severity_mut_limit(score) ==
    IF GtHundredths(score, 70) THEN "CRITICAL"
    ELSE IF GtHundredths(score, 50) THEN "HIGH"
    ELSE IF GtHundredths(score, 35) THEN "MEDIUM"
    ELSE "LOW"

\* alert_creator.py 117-126
_calculate_severity(score) ==
    IF GtHundredths(score, 70) THEN "CRITICAL"
    ELSE IF GtHundredths(score, 50) THEN "HIGH"
    ELSE IF GtHundredths(score, 30) THEN "MEDIUM"
    ELSE "LOW"

\* alert_creator.py 128-152: the evidence fields the case builder reads
_build_evidence(r) == [device_id |-> r.device_id, amount |-> r.amount]

\* alert_creator.py 46-68
_create_single_alert(r) ==
    LET t == _infer_fraud_type(r)
    IN  [alert_id |-> r.txn_id,
         detector_type |-> t[2],
         signal |-> t[3],
         severity |-> _calculate_severity(r.anomaly_score),
         confidence |-> RoundThousandths(r.anomaly_score),
         fraud_type_inferred |-> t[1],
         user_id |-> r.user_id,
         account_id |-> r.account_id,
         txn_id |-> r.txn_id,
         evidence |-> _build_evidence(r)]

\* a wrong filter: every row becomes an alert
Anomalies_mut(df) == df

\* alert_creator.py 37: df[df["is_anomaly"] == True]
Anomalies(df) == SelectSeq(df, LAMBDA r : r.is_anomaly = TRUE)

\* alert_creator.py 26-44
create_alerts(df) ==
    LET anomalies == Anomalies(df)
    IN  [i \in 1..Len(anomalies) |-> _create_single_alert(anomalies[i])]

\* the feature columns _infer_fraud_type reads
FeatureRows ==
    [user_id : UserIds, failed_login_1h : {0, 3}, geo_change_1d : {0, 1},
     new_ip_1d : {0, 1}, amount : {-9000, 600, 1200, 8000, 9999, 10000},
     declared_income : {NaN, Num(0), Num(1000), Num(2000), Num(20000)},
     is_cross_border : {0, 1},
     amount_in_1d : {5000, 5001}, amount_out_1d : {5000, 5001}]

IRInit == /\ pc = "ready"
          /\ row \in FeatureRows
          /\ inferred = <<>>
          /\ scored_df = <<>>
          /\ created = <<>>

\* AlertCreator()._infer_fraud_type(row)
InferFraudType ==
    /\ pc = "ready"
    /\ pc' = "inferred"
    /\ inferred' = _infer_fraud_type(row)
    /\ UNCHANGED <<row, scored_df, created, cbVars, predVars, feVars>>

\* the feature columns of the rows of a scored table
PlainRow == [user_id |-> UID_plain, failed_login_1h |-> 0, geo_change_1d |-> 0,
             new_ip_1d |-> 0, amount |-> 600, declared_income |-> Num(20000),
             is_cross_border |-> 0, amount_in_1d |-> 5000, amount_out_1d |-> 5000]
SampleRows == {PlainRow,
               [PlainRow EXCEPT !.failed_login_1h = 3],
               [PlainRow EXCEPT !.user_id = UID_ring]}

\* anomaly scores of the rows of a scored table
SampleScores == {Frac(0, 1), Frac(3, 10), Frac(31, 100), Frac(1, 1)}

\* a row of the table Predictor.predict returns: the feature columns and
\* txn_id, account_id, device_id, anomaly_score, is_anomaly
ScoredRow(f, t, acc, dev, score, flag) ==
    [user_id |-> f.user_id, failed_login_1h |-> f.failed_login_1h,
     geo_change_1d |-> f.geo_change_1d, new_ip_1d |-> f.new_ip_1d,
     amount |-> f.amount, declared_income |-> f.declared_income,
     is_cross_border |-> f.is_cross_border, amount_in_1d |-> f.amount_in_1d,
     amount_out_1d |-> f.amount_out_1d,
     txn_id |-> t, account_id |-> acc, device_id |-> dev,
     anomaly_score |-> score, is_anomaly |-> flag]

ScoredRows ==
    {ScoredRow(f, t, "ACC_1", "DEV_X", sc, fl) :
        f \in SampleRows, t \in 1..MaxRows, sc \in SampleScores, fl \in BOOLEAN}

ACInit == /\ pc = "ready"
          /\ scored_df \in SeqsUpTo(ScoredRows, MaxRows)
          /\ created = <<>>
          /\ row = None
          /\ inferred = <<>>

\* AlertCreator().create_alerts(df)
CreateAlerts ==
    /\ pc = "ready"
    /\ pc' = "alerted"
    /\ created' = create_alerts(scored_df)
    /\ UNCHANGED <<scored_df, row, inferred, cbVars, predVars, feVars>>

\* anomaly scores at and around the severity limits, in thousandths
SeverityScores ==
    {Frac(n, 1000) : n \in {0, 299, 300, 301, 310, 499, 500, 501, 690, 699, 700, 701,
                            710, 1000}}

\* a scored table of two anomalous rows
SevInit == /\ pc = "ready"
           /\ \E f1, f2 \in SampleRows, s1, s2 \in SeverityScores :
                 scored_df = <<ScoredRow(f1, 1, "ACC_1", "DEV_X", s1, TRUE),
                               ScoredRow(f2, 2, "ACC_1", "DEV_X", s2, TRUE)>>
           /\ created = <<>>
           /\ row = None
           /\ inferred = <<>>

ACIdle == /\ scored_df = <<>>
          /\ created = <<>>
          /\ row = None
          /\ inferred = <<>>

----------------------------------------------------------------------------
(* Predictor: services/predictor.py, and its use by Pipeline: pipeline.py *)

\* An optional argument: <<>> is None, <<v>> is the value v
Nothing == <<>>
Some(v) == <<v>>

\* thresholds, in hundredths
Thresholds == {0, 30, 50}

\* pipeline.py 49, 232: the default of Pipeline(threshold=...) and of --threshold
PipelineDefaultThreshold == 30

\* predictor.py 38, 60: the threshold of a Predictor whose artifact has none
PredictorDefaultThreshold == 0

\* the one feature column the modelled artifact requires, and its values
FeatureValues == {NaN, Num(0), Num(2)}
ImputerMedian == 1
ScalerMean    == 1
ScaledValues  == {0 - 1, 0, 1}

\* what decision_function may return (Isolation Forest: lower is more anomalous)
RawScores == {0 - 100, 0 - 31, 0 - 30, 0}

\* The artifact file: absent, or a dict with model, scaler, imputer, features
\* and possibly threshold.  The model is opaque: any function from scaled
\* vectors to raw scores.
Artifacts ==
    [present : {TRUE}, model : [ScaledValues -> RawScores],
     scaler : {[mean |-> ScalerMean]}, imputer : {[median |-> ImputerMedian]},
     features : {<<"x">>}, has_threshold : BOOLEAN, threshold : {50}]
    \cup
    [present : {FALSE}, model : {[v \in ScaledValues |-> 0]},
     scaler : {[mean |-> ScalerMean]}, imputer : {[median |-> ImputerMedian]},
     features : {<<"x">>}, has_threshold : {FALSE}, threshold : {50}]

\* predictor.py 27-42: Predictor(model_path=None)
NewPredictor ==
    [model |-> Nothing, scaler |-> Nothing, imputer |-> Nothing,
     features |-> Nothing, threshold |-> PredictorDefaultThreshold]

\* predictor.py 54-63: the fields after load_model read artifact a
Loaded(a) ==
    [model |-> Some(a.model), scaler |-> Some(a.scaler), imputer |-> Some(a.imputer),
     features |-> Some(a.features),
     threshold |-> IF a.has_threshold THEN a.threshold ELSE PredictorDefaultThreshold]

\* the feature table: its columns, and its rows (a row holds NaN in "x" when
\* the table has no such column; the value is then never read)
FeatureTable(cols, xs) ==
    [columns |-> cols,
     rows |-> [i \in 1..Len(xs) |-> [txn_id |-> i, x |-> xs[i]]]]

FeatureTables ==
    {FeatureTable({"txn_id", "x"}, xs) : xs \in SeqsUpTo(FeatureValues, MaxBatch)}
    \cup {FeatureTable({"txn_id"}, xs) : xs \in SeqsUpTo({NaN}, MaxBatch)}

\* predictor.py 91: SimpleImputer.transform
Impute(imputer, x) == IF x.nan THEN imputer.median ELSE x.v

\* predictor.py 94: StandardScaler.transform (unit scale)
Scale(scaler, v) == v - scaler.mean

\* predictor.py 98: model.decision_function
decision_function(model, v) == model[v]

\* a wrong sign: the raw score is not negated
Negate_mut(raw_scores) == raw_scores

\* predictor.py 101: anomaly_scores = -raw_scores
Negate(raw_scores) == [i \in 1..Len(raw_scores) |-> 0 - raw_scores[i]]

SeqMin(s) == CHOOSE m \in Range(s) : \A y \in Range(s) : m <= y
SeqMax(s) == CHOOSE m \in Range(s) : \A y \in Range(s) : y <= m

\* a wrong fallback: a batch of equal scores is scored 1 throughout
Normalize_mut(anomaly_scores) ==
    LET min_score == SeqMin(anomaly_scores)
        max_score == SeqMax(anomaly_scores)
    IN  IF max_score > min_score
        THEN [i \in 1..Len(anomaly_scores) |->
                 Frac(anomaly_scores[i] - min_score, max_score - min_score)]
        ELSE [i \in 1..Len(anomaly_scores) |-> Frac(1, 1)]

\* predictor.py 104-109
Normalize(anomaly_scores) ==
    LET min_score == SeqMin(anomaly_scores)
        max_score == SeqMax(anomaly_scores)
    IN  IF max_score > min_score
        THEN [i \in 1..Len(anomaly_scores) |->
                 Frac(anomaly_scores[i] - min_score, max_score - min_score)]
        ELSE [i \in 1..Len(anomaly_scores) |-> Frac(0, 1)]

\* a wrong comparison: a score equal to the threshold is flagged
Flag_mut(score, threshold) == score[1] * 100 >= threshold * score[2]

\* predictor.py 114: anomaly_scores > threshold
Flag(score, threshold) == GtHundredths(score, threshold)

\* a wrong default: the caller's override is ignored
EffectiveThreshold_mut(p, threshold) == p.threshold

\* predictor.py 85: threshold if threshold is not None else self.threshold
EffectiveThreshold(p, threshold) ==
    IF threshold # Nothing THEN threshold[1] ELSE p.threshold

Raised(error, done) ==
    [raised |-> TRUE, error |-> error, threshold |-> 0, rows |-> <<>>, steps |-> done]

\* a silent fallback: an unloaded model flags nothing
ModelMissing_mut(p, df) ==
    [raised |-> FALSE, error |-> "",
     threshold |-> p.threshold,
     rows |-> [i \in 1..Len(df.rows) |->
                 [txn_id |-> df.rows[i].txn_id, raw_score |-> 0,
                  anomaly_score |-> Frac(0, 1), is_anomaly |-> FALSE]],
     steps |-> <<"check_model">>]

\* predictor.py 82-83
ModelMissing(p, df) == Raised("ValueError", <<"check_model">>)

\* predictor.py 65-116: what predict(df, threshold) does on Predictor p: it
\* raises, or returns the table with anomaly_score and is_anomaly added;
\* "steps" lists the statements executed, "raw_score" and "threshold" are the
\* locals raw_scores and threshold
predict(p, df, threshold) ==
    IF p.model = Nothing THEN ModelMissing(p, df)
    ELSE
    LET thr == EffectiveThreshold(p, threshold)
    IN  IF ~(Range(p.features[1]) \subseteq df.columns)
        THEN Raised("KeyError", <<"check_model", "threshold", "extract">>)
        ELSE
        LET X         == [i \in 1..Len(df.rows) |-> df.rows[i].x]
            X_imputed == [i \in 1..Len(X) |-> Impute(p.imputer[1], X[i])]
            X_scaled  == [i \in 1..Len(X) |-> Scale(p.scaler[1], X_imputed[i])]
            raw_scores == [i \in 1..Len(X) |-> decision_function(p.model[1], X_scaled[i])]
            anomaly_scores == Negate(raw_scores)
        IN  IF Len(X) = 0
            THEN \* min() of an empty array
                 Raised("ValueError", <<"check_model", "threshold", "extract", "impute",
                                        "scale", "score", "negate">>)
            ELSE
            LET normalized == Normalize(anomaly_scores)
            IN  [raised |-> FALSE, error |-> "",
                 threshold |-> thr,
                 rows |-> [i \in 1..Len(X) |->
                             [txn_id |-> df.rows[i].txn_id,
                              raw_score |-> raw_scores[i],
                              anomaly_score |-> normalized[i],
                              is_anomaly |-> Flag(normalized[i], thr)]],
                 steps |-> <<"check_model", "threshold", "extract", "impute", "scale",
                             "score", "negate", "normalize", "flag">>]

NoCall   == [by |-> "nobody", override |-> Nothing]
NoResult == Raised("", <<>>)

\* the output directory before a run writes to it
NoOutput == [alerts |-> Nothing, cases |-> Nothing, summary |-> FALSE]

PredInit == /\ pc = "ready"
            /\ artifact \in Artifacts
            /\ predictor = NewPredictor
            /\ features_df \in FeatureTables
            /\ call = NoCall
            /\ result = NoResult
            /\ steps = <<>>
            /\ stage_log = <<>>
            /\ output = NoOutput

\* predictor.load_model(model_path): joblib.load raises when the file is absent
LoadModel ==
    /\ pc = "ready"
    /\ predictor.model = Nothing
    /\ artifact.present
    /\ predictor' = Loaded(artifact)
    /\ UNCHANGED <<pc, artifact, features_df, call, result, steps, stage_log, output,
                   cbVars, acVars, feVars>>

\* the scored table as AlertCreator reads it
AsScoredDf(rows) ==
    [i \in 1..Len(rows) |->
        ScoredRow(PlainRow, rows[i].txn_id, "ACC_1", "DEV_X",
                  rows[i].anomaly_score, rows[i].is_anomaly)]

\* predictor.predict(features_df) or predictor.predict(features_df, threshold=t),
\* then AlertCreator().create_alerts on the table returned
Predict ==
    /\ pc = "ready"
    /\ \E t \in {Nothing} \cup {Some(h) : h \in Thresholds} :
          LET r == predict(predictor, features_df, t)
          IN  /\ call' = [by |-> "predict", override |-> t]
              /\ result' = r
              /\ steps' = r.steps
              /\ scored_df' = AsScoredDf(r.rows)
              /\ created' = IF r.raised THEN <<>> ELSE create_alerts(AsScoredDf(r.rows))
    /\ pc' = "predicted"
    /\ UNCHANGED <<artifact, predictor, features_df, stage_log, output, row, inferred,
                   cbVars, feVars>>

\* pipeline.py 46-67, 122-136, 252-262: a command-line run with or without
\* --threshold: Pipeline(model_path, threshold) builds Predictor(model_path),
\* and run() scores with predict(features_df, threshold=self.threshold), then
\* creates the alerts
PipelineRun ==
    /\ pc = "ready"
    /\ predictor.model = Nothing
    /\ artifact.present
    /\ \E t \in {Nothing} \cup {Some(h) : h \in Thresholds} :
          LET self_threshold == IF t = Nothing THEN PipelineDefaultThreshold ELSE t[1]
              p == Loaded(artifact)
              r == predict(p, features_df, Some(self_threshold))
          IN  /\ call' = [by |-> "pipeline", override |-> t]
              /\ predictor' = p
              /\ result' = r
              /\ steps' = r.steps
              /\ scored_df' = AsScoredDf(r.rows)
              /\ created' = IF r.raised THEN <<>> ELSE create_alerts(AsScoredDf(r.rows))
    /\ pc' = "predicted"
    /\ UNCHANGED <<artifact, features_df, stage_log, output, row, inferred, cbVars, feVars>>

PredIdle == /\ artifact = None
            /\ predictor = None
            /\ features_df = None
            /\ call = None
            /\ result = None
            /\ steps = <<>>
            /\ stage_log = <<>>
            /\ output = NoOutput

----------------------------------------------------------------------------
(* Pipeline.run, statement by statement: pipeline.py 69-182 *)

\* the models of the artifacts a run is started with
RunModels == {[v \in ScaledValues |-> IF v = 1 THEN 0 - 100 ELSE IF v = 0 THEN 0 - 31 ELSE 0],
              [v \in ScaledValues |-> 0]}

RunArtifacts == {a \in Artifacts : a.present /\ a.model \in RunModels /\ ~a.has_threshold}

\* the alerts as the case builder reads them: every row of the scored table
\* belongs to the one user, account and device of AsScoredDf
AsCaseAlerts(as) ==
    [i \in 1..Len(as) |->
        MkAlert(as[i].alert_id,
                [user_id |-> "USR_A", account_id |-> as[i].account_id,
                 fraud_type_inferred |-> as[i].fraud_type_inferred,
                 device_id |-> as[i].evidence.device_id,
                 confidence |-> as[i].confidence])]

\* pipeline.py 46-67: Pipeline(model_path, threshold, mode) was constructed,
\* which loads the artifact into its Predictor; run() has not started
RunInit ==
    /\ pc = "start"
    /\ artifact \in RunArtifacts
    /\ predictor = Loaded(artifact)
    /\ features_df \in FeatureTables
    /\ \E t \in {Nothing} \cup {Some(h) : h \in Thresholds} :
          call = [by |-> "pipeline", override |-> t]
    /\ result = NoResult
    /\ steps = <<>>
    /\ stage_log = <<>>
    /\ output = NoOutput
    /\ scored_df = <<>>
    /\ created = <<>>
    /\ row = None
    /\ inferred = <<>>
    /\ alerts = <<>>
    /\ set_order = <<"behavioral_anomaly">>
    /\ cases = <<>>

\* pipeline.py 92-120: the input is loaded and compute_features returns the
\* feature table, or one of the two raises (a missing input file, LoadRaises,
\* ComputeRaises); which input directory the run has is not fixed here
RunFeatures ==
    /\ pc = "start"
    /\ \/ /\ pc' = "featured"
          /\ stage_log' = Append(stage_log, "features")
       \/ /\ pc' = "raised"
          /\ UNCHANGED stage_log
    /\ UNCHANGED <<artifact, predictor, features_df, call, result, steps, output,
                   cbVars, acVars, feVars>>

\* pipeline.py 124: predictions_df = self.predictor.predict(features_df,
\* threshold=self.threshold)
RunScoring ==
    /\ pc = "featured"
    /\ LET self_threshold == IF call.override = Nothing THEN PipelineDefaultThreshold
                             ELSE call.override[1]
           r == predict(predictor, features_df, Some(self_threshold))
       IN  /\ result' = r
           /\ steps' = r.steps
           /\ IF r.raised
              THEN /\ pc' = "raised"
                   /\ UNCHANGED <<scored_df, stage_log>>
              ELSE /\ pc' = "scored"
                   /\ scored_df' = AsScoredDf(r.rows)
                   /\ stage_log' = Append(stage_log, "scoring")
    /\ UNCHANGED <<artifact, predictor, features_df, call, output, created, row, inferred,
                   cbVars, feVars>>

\* pipeline.py 130: alerts = self.alert_creator.create_alerts(predictions_df)
RunAlerts ==
    /\ pc = "scored"
    /\ pc' = "alerted"
    /\ created' = create_alerts(scored_df)
    /\ stage_log' = Append(stage_log, "alerts")
    /\ UNCHANGED <<artifact, predictor, features_df, call, result, steps, output,
                   scored_df, row, inferred, cbVars, feVars>>

\* pipeline.py 135: cases = self.case_builder.build_cases(alerts)
RunCases ==
    /\ pc = "alerted"
    /\ pc' = "cased"
    /\ alerts' = AsCaseAlerts(created)
    /\ cases' = build_cases(AsCaseAlerts(created), set_order)
    /\ stage_log' = Append(stage_log, "cases")
    /\ UNCHANGED <<artifact, predictor, features_df, call, result, steps, output,
                   set_order, acVars, feVars>>

\* pipeline.py 142-144: alerts.json is opened and written; open() or
\* json.dump may raise OSError (directory not writable, disk full)
WriteAlerts ==
    /\ pc = "cased"
    /\ \/ /\ pc' = "alerts_written"
          /\ output' = [output EXCEPT !.alerts = Some(created)]
       \/ /\ pc' = "raised"
          /\ UNCHANGED output
    /\ UNCHANGED <<artifact, predictor, features_df, call, result, steps, stage_log,
                   cbVars, acVars, feVars>>

\* pipeline.py 147-149: cases.json is opened and written, or that raises
WriteCases ==
    /\ pc = "alerts_written"
    /\ \/ /\ pc' = "cases_written"
          /\ output' = [output EXCEPT !.cases = Some(cases)]
       \/ /\ pc' = "raised"
          /\ UNCHANGED output
    /\ UNCHANGED <<artifact, predictor, features_df, call, result, steps, stage_log,
                   cbVars, acVars, feVars>>

\* pipeline.py 153-166: pipeline_summary.json is written, or that raises
WriteSummary ==
    /\ pc = "cases_written"
    /\ \/ /\ pc' = "done"
          /\ output' = [output EXCEPT !.summary = TRUE]
       \/ /\ pc' = "raised"
          /\ UNCHANGED output
    /\ UNCHANGED <<artifact, predictor, features_df, call, result, steps, stage_log,
                   cbVars, acVars, feVars>>

----------------------------------------------------------------------------
(* FeatureEngineer: services/feature_engineer.py, raw-event mode *)

\* Times are whole hours.  A fraction is kept in lowest terms so that equal
\* values are equal tuples.
RECURSIVE GCD(_, _)
GCD(a, b) == IF b = 0 THEN a ELSE GCD(b, a % b)

Abs(x) == IF x < 0 THEN 0 - x ELSE x

Reduce(n, d) == LET g == GCD(Abs(n), d) IN Frac(n \div g, d \div g)

RECURSIVE Pow(_, _)
Pow(b, e) == IF e = 0 THEN 1 ELSE b * Pow(b, e - 1)

FEUsers   == {"U1", "U2"}
FETimes   == {0, 10, 40}
FETypes   == {"deposit", "withdrawal"}
FEAmounts == {100, 300}

\* the order of user_id strings
UserRank(u) == IF u = "U1" THEN 1 ELSE 2

TxnBody == [user_id : FEUsers, event_time : FETimes, event_type : FETypes,
            amount : FEAmounts]

\* the country every modelled transaction is made in
FECountry == "MY"

Txn(id, b) == [txn_id |-> id, user_id |-> b.user_id, event_time |-> b.event_time,
               event_type |-> b.event_type, amount |-> b.amount,
               transaction_country |-> FECountry]

\* a record of profiles.json
Profile(u, income, country) ==
    [user_id |-> u, declared_income |-> income, residence_country |-> country]

\* a missing string value of a table
NoValue == "NaN"

\* feature_engineer.py 178-183: the rows of the left merge for transaction t:
\* one per profile record with t's user_id, in the order of the profile table,
\* or one with missing profile columns when there is none
JoinRow(t, profiles) ==
    LET m == SelectSeq(profiles, LAMBDA p : p.user_id = t.user_id)
    IN  IF m = <<>>
        THEN <<[txn_id |-> t.txn_id, user_id |-> t.user_id, event_time |-> t.event_time,
                event_type |-> t.event_type, amount |-> t.amount,
                transaction_country |-> t.transaction_country,
                declared_income |-> NaN, residence_country |-> NoValue]>>
        ELSE [j \in 1..Len(m) |->
                [txn_id |-> t.txn_id, user_id |-> t.user_id, event_time |-> t.event_time,
                 event_type |-> t.event_type, amount |-> t.amount,
                 transaction_country |-> t.transaction_country,
                 declared_income |-> Num(m[j].declared_income),
                 residence_country |-> m[j].residence_country]]

\* feature_engineer.py 179: df.merge(profiles, on="user_id", how="left") keeps
\* the order of df
RECURSIVE Merge(_, _)
Merge(df, profiles) ==
    IF df = <<>> THEN <<>>
    ELSE JoinRow(Head(df), profiles) \o Merge(Tail(df), profiles)

\* feature_engineer.py 186: sort_values(["user_id", "event_time"]), a stable
\* sort on two keys
RowAbove(a, b) ==
    \/ UserRank(a.user_id) > UserRank(b.user_id)
    \/ (a.user_id = b.user_id /\ a.event_time > b.event_time)

\* row x put into the sorted rows s after every row that is not above it
RECURSIVE InsertRow(_, _)
InsertRow(x, s) ==
    IF s = <<>> THEN <<x>>
    ELSE IF RowAbove(Head(s), x) THEN <<x>> \o s
    ELSE <<Head(s)>> \o InsertRow(x, Tail(s))

\* rows with equal keys keep their order in df
RECURSIVE SortedTxns(_)
SortedTxns(df) ==
    IF df = <<>> THEN <<>>
    ELSE InsertRow(df[Len(df)], SortedTxns(SubSeq(df, 1, Len(df) - 1)))

\* a wrong window: the transactions at txn_time itself are summed too
WindowSum_mut(df, t, types) ==
    SumSeq([i \in 1..Len(df) |->
        IF /\ df[i].user_id = t.user_id
           /\ t.event_time - 24 <= df[i].event_time
           /\ df[i].event_time <= t.event_time
           /\ df[i].event_type \in types
        THEN Abs(df[i].amount) ELSE 0])

\* feature_engineer.py 250-263: the sums over the user's own transactions in
\* [txn_time - 24h, txn_time); amounts are whole, so round(., 2) changes nothing
WindowSum(df, t, types) ==
    SumSeq([i \in 1..Len(df) |->
        IF /\ df[i].user_id = t.user_id
           /\ t.event_time - 24 <= df[i].event_time
           /\ df[i].event_time < t.event_time
           /\ df[i].event_type \in types
        THEN Abs(df[i].amount) ELSE 0])

RECURSIVE InsertInt(_, _)
InsertInt(x, s) ==
    IF s = <<>> THEN <<x>>
    ELSE IF Head(s) > x THEN <<x>> \o s
    ELSE <<Head(s)>> \o InsertInt(x, Tail(s))

\* xs in ascending order
RECURSIVE SortedInts(_)
SortedInts(xs) ==
    IF xs = <<>> THEN <<>>
    ELSE InsertInt(xs[Len(xs)], SortedInts(SubSeq(xs, 1, Len(xs) - 1)))

\* twice the median of a non-empty list of integers
Median2(xs) ==
    LET s == SortedInts(xs)
        n == Len(s)
    IN  IF n % 2 = 1 THEN 2 * s[(n + 1) \div 2] ELSE s[n \div 2] + s[(n \div 2) + 1]

\* feature_engineer.py 395-402: the modified z-score of the k-th amount of a
\* user's group xs.  The value held is (1.4826 * mod_z_score_abs)^2, in lowest
\* terms: |amount - median| / mad, squared, where mad is the group's MAD, or
\* its sample standard deviation when the MAD is 0, or 1 when that is 0 or NaN.
ModZ(xs, k) ==
    LET n    == Len(xs)
        med2 == Median2(xs)
        dev  == [i \in 1..n |-> Abs(2 * xs[i] - med2)]
        mad4 == Median2(dev)
        S    == SumSeq(xs)
        SS   == SumSeq([i \in 1..n |-> xs[i] * xs[i]])
        varN == n * SS - S * S          \* variance * n * (n - 1)
    IN  IF mad4 # 0 THEN Reduce(4 * dev[k] * dev[k], mad4 * mad4)
        ELSE IF n > 1 /\ varN # 0
             THEN Reduce(dev[k] * dev[k] * n * (n - 1), 4 * varN)
        ELSE Reduce(dev[k] * dev[k], 4)

\* feature_engineer.py 417-419: |amount - ewm(span=5).mean()| at the k-th row of
\* a group: weights (2/3)^i on the i-th row back
EwmaResid(xs, k) ==
    LET N == SumSeq([i \in 1..k |-> Pow(2, k - i) * Pow(3, i - 1) * xs[i]])
        D == SumSeq([i \in 1..k |-> Pow(2, k - i) * Pow(3, i - 1)])
    IN  Reduce(Abs(xs[k] * D - N), D)

\* feature_engineer.py 433-436: the number log1p is applied to at the k-th row
\* of a group, in hundredths of an hour: the gap to the previous row, 24 hours
\* for the first row, at least 0.01 hours.  log1p is strictly increasing, so
\* gap_log is held as this number.
GapArg(times, k) ==
    IF k = 1 THEN 2400
    ELSE IF 100 * (times[k] - times[k - 1]) < 1 THEN 1
    ELSE 100 * (times[k] - times[k - 1])

\* train_model.py 93-94: gap_seconds before the fill, for row i of the table
\* sorted by user and time: the seconds since the row above when that row is
\* the same user's, missing for a user's first row
RawGapSeconds(sorted, i) ==
    IF i > 1 /\ sorted[i - 1].user_id = sorted[i].user_id
    THEN Num(3600 * (sorted[i].event_time - sorted[i - 1].event_time))
    ELSE NaN

\* train_model.py 95: fillna(gap_seconds.median()); the value held is twice
\* the number log1p is applied to (the median of an even number of gaps is a
\* half), missing when the table has no gap at all
gap_seconds(sorted, i) ==
    LET known == SelectSeq([j \in 1..Len(sorted) |-> RawGapSeconds(sorted, j)],
                           LAMBDA g : ~g.nan)
    IN  IF ~RawGapSeconds(sorted, i).nan THEN Num(2 * RawGapSeconds(sorted, i).v)
        ELSE IF known = <<>> THEN NaN
        ELSE Num(Median2([j \in 1..Len(known) |-> known[j].v]))

\* feature_engineer.py 313-319: the auth events of the transaction's user that
\* are linked to the transaction, all of them and the failed ones
LinkedAuth(auth, t) ==
    SelectSeq(auth, LAMBDA a : a.user_id = t.user_id /\ a.related_txn_id = t.txn_id)

login_count_1h(auth, t) == IF auth = <<>> THEN 0 ELSE Len(LinkedAuth(auth, t))

failed_login_1h(auth, t) ==
    IF auth = <<>> THEN 0
    ELSE Len(SelectSeq(LinkedAuth(auth, t), LAMBDA a : a.event_type = "login_failed"))

\* feature_engineer.py 342-358: net_lookup[txn_id], filled in table order so
\* that the last event linked to a transaction wins; zeros when there is none
NetLookup(net, t) ==
    LET linked == SelectSeq(net, LAMBDA n : n.related_txn_id = t.txn_id)
    IN  IF linked = <<>> THEN [new_ip_1d |-> 0, geo_change_1d |-> 0]
        ELSE [new_ip_1d |-> linked[Len(linked)].is_new_ip,
              geo_change_1d |-> linked[Len(linked)].is_geo_change]

\* feature_engineer.py 376-378: |amount| / declared_income.clip(lower=1); a
\* missing income stays missing through clip and the division
amount_to_income_ratio(t) ==
    IF t.declared_income.nan THEN [nan |-> TRUE, v |-> Frac(0, 1)]
    ELSE [nan |-> FALSE,
          v |-> Reduce(Abs(t.amount),
                       IF t.declared_income.v < 1 THEN 1 ELSE t.declared_income.v)]

\* str.lower() on the country codes used
LowerCountry(c) == CASE c = "MY" -> "my" [] c = "SG" -> "sg" [] OTHER -> c

\* feature_engineer.py 382-384: a missing residence_country compares unequal
is_cross_border(t) ==
    IF t.residence_country = NoValue THEN 1
    ELSE IF LowerCountry(t.transaction_country) # LowerCountry(t.residence_country) THEN 1
    ELSE 0

\* feature_engineer.py 165-218, mode "b2": the merged rows in sorted order,
\* with the windowed amounts, the login and network aggregations and the
\* per-user features
compute_features(df, profiles, auth, net) ==
    LET sorted == SortedTxns(Merge(df, profiles))
        grp(u) == SelectSeq(sorted, LAMBDA r : r.user_id = u)
        \* position of row i of sorted in its user's group
        pos(i) == Cardinality({j \in 1..i : sorted[j].user_id = sorted[i].user_id})
    IN  [i \in 1..Len(sorted) |->
            LET t  == sorted[i]
                g  == grp(t.user_id)
                xs == [j \in 1..Len(g) |-> g[j].amount]
                ts == [j \in 1..Len(g) |-> g[j].event_time]
                nw == NetLookup(net, t)
            IN  [txn_id |-> t.txn_id, user_id |-> t.user_id,
                 event_time |-> t.event_time, event_type |-> t.event_type,
                 amount |-> t.amount,
                 declared_income |-> t.declared_income,
                 residence_country |-> t.residence_country,
                 transaction_country |-> t.transaction_country,
                 amount_in_1d  |-> WindowSum(sorted, t, {"deposit", "buy"}),
                 amount_out_1d |-> WindowSum(sorted, t, {"withdrawal", "sell"}),
                 login_count_1h |-> login_count_1h(auth, t),
                 failed_login_1h |-> failed_login_1h(auth, t),
                 new_ip_1d |-> nw.new_ip_1d,
                 geo_change_1d |-> nw.geo_change_1d,
                 amount_abs |-> Abs(t.amount),
                 mod_z_score_abs |-> ModZ(xs, pos(i)),
                 ewma_resid |-> EwmaResid(xs, pos(i)),
                 gap_log |-> GapArg(ts, pos(i)),
                 amount_to_income_ratio |-> amount_to_income_ratio(t),
                 is_cross_border |-> is_cross_border(t)]]

\* the input directory: transactions_raw.json, profiles.json, auth_events.json
\* and network_events.json
Files(txns, profiles, auth, net) ==
    [transactions |-> txns, profiles |-> profiles, auth_events |-> auth,
     network_events |-> net]

NoFiles == Files(<<>>, <<>>, <<>>, <<>>)

\* an auth event and a network event; of an auth event only the fields that
\* _compute_login_aggregations reads are kept (its event_time is not among
\* them)
AuthEvent(u, type, txn_id) ==
    [user_id |-> u, event_type |-> type, related_txn_id |-> txn_id]
NetworkEvent(u, new_ip, geo_change, txn_id) ==
    [user_id |-> u, is_new_ip |-> new_ip, is_geo_change |-> geo_change,
     related_txn_id |-> txn_id]

\* one profile per user, and events linked to no transaction
FEProfiles == <<Profile("U1", 1000, "MY"), Profile("U2", 1000, "MY")>>
FEAuth     == <<AuthEvent("U1", "login_success", 0)>>
FENetwork  == <<NetworkEvent("U1", 0, 0, 0)>>

FEInit == /\ pc = "ready"
          /\ source_df = <<>>
          /\ files = NoFiles
          /\ profiles_df = FEProfiles
          /\ auth_events_df = FEAuth
          /\ network_events_df = FENetwork
          /\ previous = <<>>
          /\ fe_error = ""
          /\ \E b \in TxnBody :
                /\ transactions_df = <<Txn(1, b)>>
                /\ computed = compute_features(<<Txn(1, b)>>, FEProfiles, FEAuth, FENetwork)

\* load_from_raw_events on the data with one more transaction, then
\* compute_features
LoadAppended ==
    /\ Len(transactions_df) < MaxTxns
    /\ \E b \in TxnBody :
          LET df == Append(transactions_df, Txn(Len(transactions_df) + 1, b))
          IN  /\ transactions_df' = df
              /\ computed' = compute_features(df, profiles_df, auth_events_df, network_events_df)
    /\ UNCHANGED <<pc, source_df, files, profiles_df, auth_events_df, network_events_df,
                   previous, fe_error, cbVars, acVars, predVars>>

\* load_from_raw_events on the data without its last transaction, then
\* compute_features
LoadTruncated ==
    /\ Len(transactions_df) > 1
    /\ LET df == SubSeq(transactions_df, 1, Len(transactions_df) - 1)
       IN  /\ transactions_df' = df
           /\ computed' = compute_features(df, profiles_df, auth_events_df, network_events_df)
    /\ UNCHANGED <<pc, source_df, files, profiles_df, auth_events_df, network_events_df,
                   previous, fe_error, cbVars, acVars, predVars>>

\* the transactions that differ from t in one field
Alterations(t) ==
    {[t EXCEPT !.amount = a] : a \in FEAmounts \ {t.amount}}
    \cup {[t EXCEPT !.event_time = h] : h \in FETimes \ {t.event_time}}
    \cup {[t EXCEPT !.event_type = y] : y \in FETypes \ {t.event_type}}
    \cup {[t EXCEPT !.user_id = u] : u \in FEUsers \ {t.user_id}}

\* load_from_raw_events on the data with one transaction altered, then
\* compute_features
LoadAltered ==
    /\ \E k \in 1..Len(transactions_df) :
          \E t \in Alterations(transactions_df[k]) :
             LET df == [transactions_df EXCEPT ![k] = t]
             IN  /\ transactions_df' = df
                 /\ computed' = compute_features(df, profiles_df, auth_events_df, network_events_df)
    /\ UNCHANGED <<pc, source_df, files, profiles_df, auth_events_df, network_events_df,
                   previous, fe_error, cbVars, acVars, predVars>>

\* extract_events.py 47-91: the login events of source row r: login_count_1h
\* events, of which the first failed_login_1h (all, when there are fewer) are
\* failed logins
AuthEventsOf(r) ==
    [i \in 1..r.login_count_1h |->
        AuthEvent(r.user_id,
                  IF i - 1 < r.failed_login_1h THEN "login_failed" ELSE "login_success",
                  r.txn_id)]

\* extract_events.py 25-94
RECURSIVE generate_auth_events(_)
generate_auth_events(df) ==
    IF df = <<>> THEN <<>>
    ELSE AuthEventsOf(Head(df)) \o generate_auth_events(Tail(df))

\* extract_events.py 97-125: one network event per source row
generate_network_events(df) ==
    [i \in 1..Len(df) |->
        NetworkEvent(df[i].user_id, df[i].new_ip_1d, df[i].geo_change_1d, df[i].txn_id)]

\* extract_events.py 128-160: the source rows without their aggregations
extract_transactions_raw(df) ==
    [i \in 1..Len(df) |->
        [txn_id |-> df[i].txn_id, user_id |-> df[i].user_id,
         event_time |-> df[i].event_time, event_type |-> df[i].event_type,
         amount |-> df[i].amount, transaction_country |-> df[i].transaction_country]]

\* extract_events.py 163-187: one profile per user, from the user's first row,
\* in the order of the user_ids (groupby sorts its keys)
extract_profiles(df) ==
    LET first(u) == CHOOSE i \in 1..Len(df) :
                        df[i].user_id = u /\ \A j \in 1..(i - 1) : df[j].user_id # u
        present  == SelectSeq(<<"U1", "U2">>, LAMBDA u : \E i \in 1..Len(df) : df[i].user_id = u)
    IN  [k \in 1..Len(present) |->
            Profile(present[k], df[first(present[k])].declared_income,
                    df[first(present[k])].residence_country)]

\* the columns of a source row that differ between the modelled rows
SourceBody == [user_id : FEUsers, login_count_1h : {0, 2}, failed_login_1h : {0, 1, 3},
               new_ip_1d : {0, 1}, geo_change_1d : {0, 1}]

\* row i of demo_data.csv
SourceRow(i, b) ==
    [txn_id |-> i, user_id |-> b.user_id, event_time |-> 10 * i, event_type |-> "deposit",
     amount |-> 100, transaction_country |-> FECountry, declared_income |-> 1000,
     residence_country |-> FECountry,
     login_count_1h |-> b.login_count_1h, failed_login_1h |-> b.failed_login_1h,
     new_ip_1d |-> b.new_ip_1d, geo_change_1d |-> b.geo_change_1d]

\* no FeatureEngineer call was made yet
FEFresh == /\ transactions_df = <<>>
           /\ profiles_df = <<>>
           /\ auth_events_df = <<>>
           /\ network_events_df = <<>>
           /\ computed = <<>>
           /\ previous = <<>>
           /\ fe_error = ""

\* demo_data.csv with unique txn_ids, before extract_events runs
SourceInit ==
    /\ pc = "source"
    /\ source_df \in {[i \in 1..Len(bs) |-> SourceRow(i, bs[i])] :
                          bs \in SeqsUpTo(SourceBody, MaxSource)}
    /\ files = NoFiles
    /\ FEFresh

\* extract_events.py 190-243: main() writes the four files
ExtractEvents ==
    /\ pc = "source"
    /\ pc' = "files"
    /\ files' = Files(extract_transactions_raw(source_df), extract_profiles(source_df),
                      generate_auth_events(source_df), generate_network_events(source_df))
    /\ UNCHANGED <<source_df, transactions_df, profiles_df, auth_events_df,
                   network_events_df, computed, previous, fe_error,
                   cbVars, acVars, predVars>>

\* feature_engineer.py 120-134: pd.DataFrame of an empty list has no columns,
\* so parsing the event_time column of an empty transaction, auth event or
\* network event list raises KeyError
LoadRaises(f) ==
    f.transactions = <<>> \/ f.auth_events = <<>> \/ f.network_events = <<>>

\* FeatureEngineer().load_from_raw_events(...)
LoadFromRawEvents ==
    /\ pc = "files"
    /\ IF LoadRaises(files)
       THEN /\ pc' = "raised"
            /\ fe_error' = "KeyError"
            /\ UNCHANGED <<transactions_df, profiles_df, auth_events_df, network_events_df>>
       ELSE /\ pc' = "loaded"
            /\ transactions_df' = files.transactions
            /\ profiles_df' = files.profiles
            /\ auth_events_df' = files.auth_events
            /\ network_events_df' = files.network_events
            /\ UNCHANGED fe_error
    /\ UNCHANGED <<source_df, files, computed, previous, cbVars, acVars, predVars>>

\* feature_engineer.py 178-180: self.profiles_df[profile_cols] raises KeyError
\* when the profile table was made from an empty list
ComputeRaises(profiles) == profiles = <<>>

\* a wrong copy: compute_features merges and sorts the loaded table itself
LoadedAfterCompute_mut(df, profiles) == SortedTxns(Merge(df, profiles))

\* feature_engineer.py 175: df = self.transactions_df.copy(); the loaded table
\* is as it was when compute_features returns
LoadedAfterCompute(df, profiles) == df

\* fe.compute_features(), the first call
ComputeFeatures ==
    /\ pc = "loaded"
    /\ IF ComputeRaises(profiles_df)
       THEN /\ pc' = "raised"
            /\ fe_error' = "KeyError"
            /\ UNCHANGED <<transactions_df, computed>>
       ELSE /\ pc' = "computed"
            /\ computed' = compute_features(transactions_df, profiles_df, auth_events_df,
                                            network_events_df)
            /\ transactions_df' = LoadedAfterCompute(transactions_df, profiles_df)
            /\ UNCHANGED fe_error
    /\ UNCHANGED <<source_df, files, profiles_df, auth_events_df, network_events_df,
                   previous, cbVars, acVars, predVars>>

\* fe.compute_features() called again on the same FeatureEngineer
ComputeAgain ==
    /\ pc = "computed"
    /\ pc' = "recomputed"
    /\ previous' = computed
    /\ computed' = compute_features(transactions_df, profiles_df, auth_events_df,
                                    network_events_df)
    /\ transactions_df' = LoadedAfterCompute(transactions_df, profiles_df)
    /\ UNCHANGED <<source_df, files, profiles_df, auth_events_df, network_events_df,
                   fe_error, cbVars, acVars, predVars>>

\* a second FeatureEngineer loads the same files and computes
ComputeOnNewEngineer ==
    /\ pc = "computed"
    /\ pc' = "recomputed"
    /\ previous' = computed
    /\ computed' = compute_features(files.transactions, files.profiles, files.auth_events,
                                    files.network_events)
    /\ transactions_df' = LoadedAfterCompute(files.transactions, files.profiles)
    /\ profiles_df' = files.profiles
    /\ auth_events_df' = files.auth_events
    /\ network_events_df' = files.network_events
    /\ UNCHANGED <<source_df, files, fe_error, cbVars, acVars, predVars>>

\* transactions of two users at two times, and profile tables in which a
\* user may have no record, one record or two, and a declared income of 0
JoinBodies  == {b \in TxnBody : b.event_type = "deposit" /\ b.event_time \in {0, 10}}
JoinProfiles == {Profile("U1", 1000, "MY"), Profile("U1", 5000, "SG"),
                 Profile("U2", 0, "MY")}

JoinInit ==
    /\ pc = "files"
    /\ source_df = <<>>
    /\ \E bs \in SeqsUpTo(JoinBodies, MaxJoin), ps \in SeqsUpTo(JoinProfiles, MaxProfiles),
          au \in {<<>>, FEAuth} :
          files = Files([i \in 1..Len(bs) |-> Txn(i, bs[i])], ps, au, FENetwork)
    /\ FEFresh

\* transactions whose times lie 24, 6 and 30 hours apart, of every type the
\* windowed sums read; the amount of a transaction is given by its position;
\* the other user has a deposit and a withdrawal inside every window
WindowTimes   == {0, 24, 30}
WindowTypes   == {"deposit", "buy", "withdrawal", "sell"}
WindowAmounts == <<100, 0 - 300, 1000, 50, 7>>
WindowBodies  == ({"U1"} \X WindowTimes \X WindowTypes)
                    \cup ({"U2"} \X {0} \X {"deposit", "withdrawal"})

WindowInit ==
    /\ pc = "files"
    /\ source_df = <<>>
    /\ \E bs \in SeqsUpTo(WindowBodies, MaxWindow) :
          files = Files([i \in 1..Len(bs) |->
                            Txn(i, [user_id |-> bs[i][1], event_time |-> bs[i][2],
                                    event_type |-> bs[i][3], amount |-> WindowAmounts[i]])],
                        FEProfiles, FEAuth, FENetwork)
    /\ FEFresh

FEIdle == /\ transactions_df = <<>>
          /\ computed = <<>>
          /\ source_df = <<>>
          /\ files = NoFiles
          /\ profiles_df = <<>>
          /\ auth_events_df = <<>>
          /\ network_events_df = <<>>
          /\ previous = <<>>
          /\ fe_error = ""

----------------------------------------------------------------------------
(* Specification of the CaseBuilder *)

InitCase == CBInit /\ ACIdle /\ PredIdle /\ FEIdle
NextCase == BuildCases
SpecCase == InitCase /\ [][NextCase]_vars

(* Specification of the CaseBuilder on the alerts of one user with varying
   confidences *)

InitScore == ScoreInit /\ ACIdle /\ PredIdle /\ FEIdle
NextScore == BuildCases
SpecScore == InitScore /\ [][NextScore]_vars

(* Specification of the CaseBuilder on alerts whose users and devices are
   named as the data generator names them *)

InitRing == RingInit /\ ACIdle /\ PredIdle /\ FEIdle
NextRing == BuildCases
SpecRing == InitRing /\ [][NextRing]_vars

(* Specification of the CaseBuilder on alerts with and without a known
   device *)

InitDevice == DeviceInit /\ ACIdle /\ PredIdle /\ FEIdle
NextDevice == BuildCases
SpecDevice == InitDevice /\ [][NextDevice]_vars

(* Specification of the FeatureEngineer on data sets that differ by one
   transaction *)

InitFeat == FEInit /\ CBIdle /\ ACIdle /\ PredIdle
NextFeat == LoadAppended \/ LoadTruncated \/ LoadAltered
SpecFeat == InitFeat /\ [][NextFeat]_vars

(* Specification of the FeatureEngineer joining transactions with profiles,
   called once and again *)

InitJoin == JoinInit /\ CBIdle /\ ACIdle /\ PredIdle
NextJoin == LoadFromRawEvents \/ ComputeFeatures \/ ComputeAgain \/ ComputeOnNewEngineer
SpecJoin == InitJoin /\ [][NextJoin]_vars

(* Specification of the FeatureEngineer computing the windowed sums *)

InitWindow == WindowInit /\ CBIdle /\ ACIdle /\ PredIdle
NextWindow == LoadFromRawEvents \/ ComputeFeatures
SpecWindow == InitWindow /\ [][NextWindow]_vars

(* Specification of the raw-event round trip: extract_events, then the
   FeatureEngineer in raw-event mode *)

InitRoundTrip == SourceInit /\ CBIdle /\ ACIdle /\ PredIdle
NextRoundTrip == ExtractEvents \/ LoadFromRawEvents \/ ComputeFeatures
SpecRoundTrip == InitRoundTrip /\ [][NextRoundTrip]_vars

(* Specification of the Predictor, called directly and by a Pipeline run *)

InitPredict == PredInit /\ ACIdle /\ CBIdle /\ FEIdle
NextPredict == LoadModel \/ Predict \/ PipelineRun
SpecPredict == InitPredict /\ [][NextPredict]_vars

(* Specification of one Pipeline.run *)

InitRun == RunInit /\ FEIdle
NextRun == RunFeatures \/ RunScoring \/ RunAlerts \/ RunCases
              \/ WriteAlerts \/ WriteCases \/ WriteSummary
SpecRun == InitRun /\ [][NextRun]_vars

(* Specification of AlertCreator.create_alerts on a scored table *)

InitAlert == ACInit /\ CBIdle /\ PredIdle /\ FEIdle
NextAlert == CreateAlerts
SpecAlert == InitAlert /\ [][NextAlert]_vars

(* Specification of AlertCreator.create_alerts on two anomalous rows whose
   scores lie at and around the severity limits *)

InitSeverity == SevInit /\ CBIdle /\ PredIdle /\ FEIdle
NextSeverity == CreateAlerts
SpecSeverity == InitSeverity /\ [][NextSeverity]_vars

(* Specification of AlertCreator._infer_fraud_type on one row *)

InitInfer == IRInit /\ CBIdle /\ PredIdle /\ FEIdle
NextInfer == InferFraudType
SpecInfer == InitInfer /\ [][NextInfer]_vars

----------------------------------------------------------------------------
(* Properties of the CaseBuilder *)

\* the alerts of the batch on device d, and their users, read off the batch
OnDevice(d) == {i \in 1..Len(alerts) : alerts[i].evidence.device_id = d}
UsersOn(d)  == {alerts[i].user_id : i \in OnDevice(d)}
SharedDevices == {d \in CBDevices \ {"unknown"} : Cardinality(UsersOn(d)) > 1}

\* the alerts no ring consumes, and those of user u among them
Leftover    == {i \in 1..Len(alerts) : alerts[i].evidence.device_id \notin SharedDevices}
LeftoverOf(u) == {i \in Leftover : alerts[i].user_id = u}

\* the places (case k, position j) where alert_id x is listed
Listings(x) == {<<k, j>> \in (1..Len(cases)) \X (1..MaxAlerts + 1) :
                    j <= Len(cases[k].alert_ids) /\ cases[k].alert_ids[j] = x}

\* the cases pass 2 made for user u
UserCasesOf(u) == {k \in 1..Len(cases) : cases[k].shared_device = None
                                         /\ cases[k].case_suffix = Chars(u)}

\* C1: the alert_ids lists of the returned cases partition the batch: every
\* input alert_id is listed exactly once, in exactly one case, no case lists an
\* alert_id that is not in the batch, and no case is empty.
C1_Partition ==
    pc = "built" =>
        /\ \A i \in 1..Len(alerts) : Cardinality(Listings(alerts[i].alert_id)) = 1
        /\ \A k \in 1..Len(cases) :
              /\ Len(cases[k].alert_ids) > 0
              /\ \A j \in 1..Len(cases[k].alert_ids) :
                    \E i \in 1..Len(alerts) : alerts[i].alert_id = cases[k].alert_ids[j]

\* a batch that yields a ring case and a per-user case
C1_Witness ==
    /\ pc = "built"
    /\ Len(alerts) = MaxAlerts
    /\ \E k1, k2 \in 1..Len(cases) : /\ cases[k1].shared_device # None
                                     /\ cases[k2].shared_device = None

\* C4: pass 1 makes, for every known device whose alerts come from more than
\* one user, exactly one fraud_ring case with that shared_device, holding every
\* alert on the device and the set of their users as ring_members; a device
\* whose alerts all come from one user gets no ring case.
C4_RingPerSharedDevice ==
    pc = "built" =>
        \A d \in CBDevices \ {"unknown"} :
            LET ringCases == {k \in 1..Len(cases) : cases[k].shared_device = d}
            IN  IF Cardinality(UsersOn(d)) > 1
                THEN /\ Cardinality(ringCases) = 1
                     /\ \A k \in ringCases :
                           /\ cases[k].fraud_type = "fraud_ring"
                           /\ Range(cases[k].alert_ids) = {alerts[i].alert_id : i \in OnDevice(d)}
                           /\ Len(cases[k].alert_ids) = Cardinality(OnDevice(d))
                           /\ cases[k].ring_members = UsersOn(d)
                ELSE ringCases = {}

\* one device shared by two users, another used by a single user
C4_Witness ==
    /\ pc = "built"
    /\ \E d1, d2 \in CBDevices \ {"unknown"} :
          /\ Cardinality(UsersOn(d1)) > 1
          /\ Cardinality(UsersOn(d2)) = 1
          /\ \E k \in 1..Len(cases) : cases[k].shared_device = d1

\* C5: when the alerts of a user that no ring consumed span more than one
\* account_id, that user's case has fraud_type multi_account_fraud, whatever the
\* inferred types of its alerts.
C5_MultiAccountOverrides ==
    pc = "built" =>
        \A u \in CBUsers :
            Cardinality({alerts[i].account_id : i \in LeftoverOf(u)}) > 1 =>
                /\ UserCasesOf(u) # {}
                /\ \A k \in UserCasesOf(u) : cases[k].fraud_type = "multi_account_fraud"

\* a user with two accounts whose alerts all carry the same other type
C5_Witness ==
    /\ pc = "built"
    /\ \E u \in CBUsers :
          /\ Cardinality({alerts[i].account_id : i \in LeftoverOf(u)}) > 1
          /\ \A i \in LeftoverOf(u) : alerts[i].fraud_type_inferred = "account_takeover"
          /\ \E k \in UserCasesOf(u) : cases[k].fraud_type = "multi_account_fraud"

\* the confidences of the alerts case k lists, in the order of the batch
ConfidencesOf(k) ==
    LET mine == SelectSeq(alerts, LAMBDA a : a.alert_id \in Range(cases[k].alert_ids))
    IN  [i \in 1..Len(mine) |-> mine[i].confidence]

\* ((avg + max) / 2) * 100 + bonus of case k as num / den, where the bonus is 5
\* points per alert up to 20; confidences are in thousandths
UncappedNum(k) ==
    LET cs == ConfidencesOf(k)
        n  == Len(cs)
        mx == CHOOSE m \in Range(cs) : \A y \in Range(cs) : y <= m
    IN  SumSeq(cs) + n * mx + 20 * n * (IF 5 * n < 20 THEN 5 * n ELSE 20)
UncappedDen(k) == 20 * Len(ConfidencesOf(k))

\* min(95, value) of case k as num / UncappedDen(k)
CappedNum(k) ==
    IF UncappedNum(k) > 95 * UncappedDen(k) THEN 95 * UncappedDen(k) ELSE UncappedNum(k)

\* C12 as stated: the case_score of every case is its capped value
\* min(95, ((avg + max) / 2) * 100 + bonus) rounded to the nearest integer: it
\* lies within one half of the capped value.
C12_RoundedToNearest ==
    pc = "built" =>
        \A k \in 1..Len(cases) :
            /\ 2 * (cases[k].case_score * UncappedDen(k) - CappedNum(k)) <= UncappedDen(k)
            /\ 2 * (CappedNum(k) - cases[k].case_score * UncappedDen(k)) <= UncappedDen(k)

\* what the code computes: the capped value with its fraction cut off
C12_Truncated ==
    pc = "built" =>
        \A k \in 1..Len(cases) :
            /\ cases[k].case_score * UncappedDen(k) <= CappedNum(k)
            /\ CappedNum(k) < (cases[k].case_score + 1) * UncappedDen(k)

\* C13: the risk_level of a case, and its priority, follow from its case_score
\* alone: CRITICAL from 80, HIGH from 60 to 79, MEDIUM from 40 to 59, LOW below
\* 40; and the case_score lies in 0..95.
C13_RiskLevelBuckets ==
    pc = "built" =>
        \A k \in 1..Len(cases) :
            LET c == cases[k]
            IN  /\ 0 <= c.case_score /\ c.case_score <= 95
                /\ c.case_score >= 80 => c.risk_level = "CRITICAL"
                /\ (60 <= c.case_score /\ c.case_score < 80) => c.risk_level = "HIGH"
                /\ (40 <= c.case_score /\ c.case_score < 60) => c.risk_level = "MEDIUM"
                /\ c.case_score < 40 => c.risk_level = "LOW"
                /\ c.priority = c.risk_level

\* a case whose score is exactly 80, the CRITICAL limit, built from alerts
\* whose confidences differ
C13_Witness ==
    /\ pc = "built"
    /\ \E k \in 1..Len(cases) :
          /\ cases[k].case_score = 80 /\ cases[k].risk_level = "CRITICAL"
          /\ Cardinality(Range(ConfidencesOf(k))) > 1

\* cases that reach the cap of 95, and the limits 60 and 40
C13_LimitsReached ==
    /\ pc = "built"
    /\ \E k \in 1..Len(cases) :
          \/ (cases[k].case_score = 95 /\ UncappedNum(k) > 95 * UncappedDen(k))
          \/ (cases[k].case_score = 60 /\ cases[k].risk_level = "HIGH")
          \/ (cases[k].case_score = 40 /\ cases[k].risk_level = "MEDIUM")

\* C14 as stated: the cases one build_cases run returns have pairwise distinct
\* case_ids, whatever the batch: two ring devices, two users, or a ring device
\* and a user never yield the same case_id.
C14_DistinctCaseIds ==
    pc = "built" =>
        \A k1, k2 \in 1..Len(cases) : k1 # k2 => cases[k1].case_id # cases[k2].case_id

\* what does hold: cases whose suffixes differ within their first 12
\* characters, upper-cased, have different case_ids
C14_DistinctUpToTruncation ==
    pc = "built" =>
        \A k1, k2 \in 1..Len(cases) :
            Upper(FirstChars(cases[k1].case_suffix, 12))
                # Upper(FirstChars(cases[k2].case_suffix, 12))
            => cases[k1].case_id # cases[k2].case_id

\* two ring cases, for different shared devices, with one case_id
C14_RingCollision ==
    /\ pc = "built"
    /\ \E k1, k2 \in 1..Len(cases) :
          /\ cases[k1].shared_device # None /\ cases[k2].shared_device # None
          /\ cases[k1].shared_device # cases[k2].shared_device
          /\ cases[k1].case_id = cases[k2].case_id

\* the users of the batch, and the devices its alerts carry
BatchUsers   == {alerts[i].user_id : i \in 1..Len(alerts)}
BatchDevices == {alerts[i].evidence.device_id : i \in 1..Len(alerts)}

\* C18: when every alert of the batch carries the same known device and the
\* alerts come from k >= 2 users, build_cases returns exactly one case: a
\* fraud_ring case with the k users as ring members and all alerts of the
\* batch, and no per-user case.
C18_RingOnlyBatch ==
    (/\ pc = "built"
     /\ Cardinality(BatchDevices) = 1
     /\ "unknown" \notin BatchDevices
     /\ Cardinality(BatchUsers) >= 2)
    => /\ Len(cases) = 1
       /\ cases[1].fraud_type = "fraud_ring"
       /\ cases[1].shared_device \in BatchDevices
       /\ cases[1].ring_members = BatchUsers
       /\ cases[1].user_id = BatchUsers
       /\ cases[1].alert_ids = [i \in 1..Len(alerts) |-> alerts[i].alert_id]
       /\ cases[1].alert_count = Len(alerts)

\* four alerts from four users on one device: one ring case with four members
C18_Witness ==
    /\ pc = "built"
    /\ Len(alerts) = 4
    /\ Cardinality(BatchUsers) = 4
    /\ BatchDevices = {"DEV-RING-01"}
    /\ Len(cases) = 1
    /\ Cardinality(cases[1].ring_members) = 4
    /\ Len(cases[1].alert_ids) = 4

----------------------------------------------------------------------------
(* Properties of the AlertCreator *)

\* the ordered rule list of the fraud-type inference: predicate n and its label
RuleHolds(n, r) ==
    CASE n = 1 -> ring_pattern(r)
      [] n = 2 -> multi_pattern(r)
      [] n = 3 -> ato_rule(r)
      [] n = 4 -> income_rule(r)
      [] n = 5 -> geo_rule(r)
      [] n = 6 -> flow_rule(r)
      [] n = 7 -> structuring_rule(r)
      [] n = 8 -> TRUE
RuleLabel == <<"fraud_ring", "multi_account_fraud", "account_takeover", "income_anomaly",
               "geo_anomaly", "money_mule", "money_mule", "behavioral_anomaly">>
LowestRule(r) == CHOOSE n \in 1..8 : RuleHolds(n, r) /\ \A m \in 1..(n - 1) : ~RuleHolds(m, r)

\* C2: the inferred fraud type is the label of the lowest-numbered rule whose
\* predicate holds for the row, whichever later rules hold as well.
C2_FirstMatchWins ==
    pc = "inferred" => inferred[1] = RuleLabel[LowestRule(row)]

\* a row on which the account-takeover rule and three later rules all hold
C2_Witness ==
    /\ pc = "inferred"
    /\ LowestRule(row) = 3
    /\ RuleHolds(4, row) /\ RuleHolds(5, row) /\ RuleHolds(6, row)
    /\ inferred[1] = "account_takeover"

\* the txn_ids of the anomalous rows of the table, in table order
AnomalousTxns ==
    LET idx == SelectSeq([i \in 1..Len(scored_df) |-> i],
                         LAMBDA i : scored_df[i].is_anomaly)
    IN  [k \in 1..Len(idx) |-> scored_df[idx[k]].txn_id]

\* C6: create_alerts returns one alert per row with is_anomaly true and none for
\* the others: the txn_ids of the alerts are the txn_ids of the anomalous rows,
\* with the same multiplicities and in the same order.
C6_OneAlertPerAnomaly ==
    pc = "alerted" =>
        /\ [k \in 1..Len(created) |-> created[k].txn_id] = AnomalousTxns
        /\ Len(created) = Cardinality({i \in 1..Len(scored_df) : scored_df[i].is_anomaly})

\* a table with an anomalous row after a normal one
C6_Witness ==
    /\ pc = "alerted"
    /\ Len(scored_df) = 2
    /\ ~scored_df[1].is_anomaly /\ scored_df[2].is_anomaly
    /\ Len(created) = 1 /\ created[1].txn_id = scored_df[2].txn_id

\* the severities in rising order
SeverityRank(v) ==
    CASE v = "LOW" -> 1 [] v = "MEDIUM" -> 2 [] v = "HIGH" -> 3 [] v = "CRITICAL" -> 4

\* the severity bucket of a score, in thousandths
Bucket(n) ==
    IF n > 700 THEN "CRITICAL"
    ELSE IF 500 < n /\ n <= 700 THEN "HIGH"
    ELSE IF 300 < n /\ n <= 500 THEN "MEDIUM"
    ELSE "LOW"

\* the anomaly_score of row i of the scored table, in thousandths
ScoreOf(i) == (scored_df[i].anomaly_score[1] * 1000) \div scored_df[i].anomaly_score[2]

\* C11: the severity of an alert depends on the anomaly_score of its row alone:
\* CRITICAL above 0.7, HIGH in (0.5, 0.7], MEDIUM in (0.3, 0.5], LOW up to 0.3;
\* rows with equal scores get equal severities whatever their other columns,
\* and a row with a higher score never gets a lower severity.
C11_SeverityBuckets ==
    pc = "alerted" =>
        /\ Len(created) = Len(scored_df)
        /\ \A i \in 1..Len(created) : created[i].severity = Bucket(ScoreOf(i))
        /\ \A i, j \in 1..Len(created) :
              /\ ScoreOf(i) = ScoreOf(j) => created[i].severity = created[j].severity
              /\ ScoreOf(i) <= ScoreOf(j) =>
                    SeverityRank(created[i].severity) <= SeverityRank(created[j].severity)

\* rows scored 0.69 and 0.71, with different other columns: HIGH and CRITICAL
C11_Witness ==
    /\ pc = "alerted"
    /\ ScoreOf(1) = 690 /\ ScoreOf(2) = 710
    /\ scored_df[1].user_id # scored_df[2].user_id
    /\ created[1].severity = "HIGH" /\ created[2].severity = "CRITICAL"

\* a row scored exactly 0.7: HIGH
C11_LimitReached ==
    /\ pc = "alerted"
    /\ ScoreOf(1) = 700 /\ created[1].severity = "HIGH"

----------------------------------------------------------------------------
(* Properties of the Predictor *)

Called == pc = "predicted"
Scored == Called /\ ~result.raised

\* the row of the returned table with score n/100
HasScore(r, n) == r.anomaly_score[1] * 100 = n * r.anomaly_score[2]

\* position of a statement in the executed statements, 0 when not executed
StepAt(name) == IF name \in Range(steps)
                THEN CHOOSE i \in 1..Len(steps) : steps[i] = name
                ELSE 0

\* C7: predict never yields an unscored result: with no model loaded, or with a
\* feature column of the artifact missing from the table, it raises and returns
\* no table (and no alert is made); whenever it returns a table, the model was
\* loaded and every row of the input was imputed, then scaled, then scored.
C7_NeverUnscored ==
    Called =>
        /\ (predictor.model = Nothing \/ ~(Range(artifact.features) \subseteq features_df.columns))
              => (result.raised /\ result.rows = <<>> /\ created = <<>>)
        /\ ~result.raised =>
              /\ predictor.model = Some(artifact.model)
              /\ Len(result.rows) = Len(features_df.rows)
              /\ 0 < StepAt("impute")
              /\ StepAt("impute") < StepAt("scale")
              /\ StepAt("scale") < StepAt("score")
              /\ StepAt("score") < StepAt("flag")
        /\ \A i \in 1..Len(result.rows) : ~result.rows[i].is_anomaly => StepAt("score") > 0

\* predict called on a Predictor that never loaded a model
C7_Witness ==
    /\ Called
    /\ predictor.model = Nothing
    /\ Len(features_df.rows) > 0
    /\ result.raised /\ result.error = "ValueError"

\* C8: is_anomaly of a row is true exactly when its anomaly_score is strictly
\* greater than the threshold in force (a score equal to the threshold is not
\* anomalous); with threshold 0.3 a row scored 0.31 is anomalous and its alert
\* has severity MEDIUM.
C8_StrictThreshold ==
    Scored =>
        \A i \in 1..Len(result.rows) :
            LET r == result.rows[i]
            IN  /\ r.is_anomaly <=> r.anomaly_score[1] * 100 > result.threshold * r.anomaly_score[2]
                /\ HasScore(r, result.threshold) => ~r.is_anomaly
                /\ (result.threshold = 30 /\ HasScore(r, 31)) =>
                      /\ r.is_anomaly
                      /\ \E k \in 1..Len(created) : /\ created[k].txn_id = r.txn_id
                                                    /\ created[k].severity = "MEDIUM"

\* threshold 0.3 and a row scored 0.31: flagged, with a MEDIUM alert
C8_Witness ==
    /\ Scored
    /\ result.threshold = 30
    /\ \E i \in 1..Len(result.rows) :
          /\ HasScore(result.rows[i], 31) /\ result.rows[i].is_anomaly
          /\ \E k \in 1..Len(created) : /\ created[k].txn_id = result.rows[i].txn_id
                                        /\ created[k].severity = "MEDIUM"

\* threshold 0.3 and a row scored exactly 0.30: not flagged
C8_BoundaryReached ==
    /\ Scored
    /\ result.threshold = 30
    /\ \E j \in 1..Len(result.rows) :
          HasScore(result.rows[j], 30) /\ ~result.rows[j].is_anomaly

\* the threshold stored in the artifact (0.0 when it stores none)
ArtifactThreshold ==
    IF artifact.has_threshold THEN artifact.threshold ELSE PredictorDefaultThreshold

FlaggedAgainst(h) ==
    \A i \in 1..Len(result.rows) :
        result.rows[i].is_anomaly <=>
            result.rows[i].anomaly_score[1] * 100 > h * result.rows[i].anomaly_score[2]

\* C9 as stated: in any run without a threshold override, a direct predict call
\* or a Pipeline / command-line run alike, is_anomaly is computed against the
\* threshold stored in the artifact.
C9_Original ==
    (Scored /\ call.override = Nothing /\ artifact.has_threshold)
        => FlaggedAgainst(artifact.threshold)

\* C9 as the code has it: Predictor.predict called without threshold scores
\* against the artifact's threshold (0.0 when the artifact stores none); a
\* Pipeline / command-line run started without --threshold passes its own
\* default 0.3 to predict as an override, so the artifact's threshold is not
\* used; an explicit override replaces either default.
C9_DefaultThreshold ==
    Scored =>
        /\ (call.by = "predict" /\ call.override = Nothing) => FlaggedAgainst(ArtifactThreshold)
        /\ (call.by = "pipeline" /\ call.override = Nothing) =>
              FlaggedAgainst(PipelineDefaultThreshold)
        /\ call.override # Nothing => FlaggedAgainst(call.override[1])

\* a pipeline run without --threshold on an artifact that stores threshold 0.5:
\* the row scored 0.31 is flagged
C9_Witness ==
    /\ Scored
    /\ call.by = "pipeline" /\ call.override = Nothing
    /\ artifact.has_threshold /\ artifact.threshold = 50
    /\ \E i \in 1..Len(result.rows) :
          HasScore(result.rows[i], 31) /\ result.rows[i].is_anomaly

\* the negated raw scores of the returned table, and their extremes
Neg(i)  == 0 - result.rows[i].raw_score
NegMin  == CHOOSE m \in {Neg(i) : i \in 1..Len(result.rows)} :
               \A j \in 1..Len(result.rows) : m <= Neg(j)
NegMax  == CHOOSE m \in {Neg(i) : i \in 1..Len(result.rows)} :
               \A j \in 1..Len(result.rows) : Neg(j) <= m

\* C10: every anomaly_score lies in [0,1] and is the min-max normalization of
\* the negated raw score over the batch, score * (max - min) = -raw - min; and
\* a row with a more anomalous (lower) raw score never gets a lower score.
C10_MinMaxNormalized ==
    Scored =>
        /\ \A i \in 1..Len(result.rows) :
              LET q == result.rows[i].anomaly_score
              IN  /\ q[2] > 0 /\ 0 <= q[1] /\ q[1] <= q[2]
                  /\ q[1] * (NegMax - NegMin) = (Neg(i) - NegMin) * q[2]
        /\ \A i, j \in 1..Len(result.rows) :
              result.rows[i].raw_score < result.rows[j].raw_score =>
                  result.rows[i].anomaly_score[1] * result.rows[j].anomaly_score[2]
                      >= result.rows[j].anomaly_score[1] * result.rows[i].anomaly_score[2]

\* a batch with three different raw scores: scores 0, 0.31 and 1
C10_Witness ==
    /\ Scored
    /\ \E i, j, k \in 1..Len(result.rows) :
          /\ HasScore(result.rows[i], 0) /\ HasScore(result.rows[j], 31)
          /\ HasScore(result.rows[k], 100)
          /\ result.rows[k].raw_score < result.rows[j].raw_score
          /\ result.rows[j].raw_score < result.rows[i].raw_score

----------------------------------------------------------------------------
(* Properties of the FeatureEngineer *)

\* the computed row of transaction id
FeatureRow(tbl, id) == CHOOSE r \in Range(tbl) : r.txn_id = id

\* the transactions of t's user at or before t's time
UpTo(df, t) == {df[i] : i \in {j \in 1..Len(df) : /\ df[j].user_id = t.user_id
                                                   /\ df[j].event_time <= t.event_time}}

\* transaction k is in both data sets and nothing of its user at or before its
\* time differs between them: only later transactions of the user, or
\* transactions of other users, were added, removed or altered
OnlyFutureOrOthersChanged(k) ==
    /\ k <= Len(transactions_df')
    /\ transactions_df'[k] = transactions_df[k]
    /\ UpTo(transactions_df', transactions_df[k]) = UpTo(transactions_df, transactions_df[k])

\* C3: no lookahead: every computed feature of a transaction (mod_z_score_abs,
\* ewma_resid, gap_log, amount_in_1d, amount_out_1d) is unchanged when only
\* later transactions of its user, or transactions of other users, change.
C3_NoLookahead ==
    [][\A k \in 1..Len(transactions_df) :
          OnlyFutureOrOthersChanged(k) =>
             LET old == FeatureRow(computed, k)
                 new == FeatureRow(computed', k)
             IN  /\ new.mod_z_score_abs = old.mod_z_score_abs
                 /\ new.ewma_resid = old.ewma_resid
                 /\ new.gap_log = old.gap_log
                 /\ new.amount_in_1d = old.amount_in_1d
                 /\ new.amount_out_1d = old.amount_out_1d]_vars

\* the same for the four features other than mod_z_score_abs
C3_NoLookaheadButModZ ==
    [][\A k \in 1..Len(transactions_df) :
          OnlyFutureOrOthersChanged(k) =>
             LET old == FeatureRow(computed, k)
                 new == FeatureRow(computed', k)
             IN  /\ new.ewma_resid = old.ewma_resid
                 /\ new.gap_log = old.gap_log
                 /\ new.amount_in_1d = old.amount_in_1d
                 /\ new.amount_out_1d = old.amount_out_1d]_vars

\* compute_features returned a table
Returned == pc \in {"computed", "recomputed"}

\* the rows of the returned table for transaction id
RowsOf(id) == {i \in 1..Len(computed) : computed[i].txn_id = id}

\* the profile records of user u loaded
ProfilesOf(u) == {j \in 1..Len(profiles_df) : profiles_df[j].user_id = u}

\* C15 as stated: compute_features returns exactly one row per loaded
\* transaction, whatever the profile table: as many rows as transactions, and
\* each txn_id in exactly one row, also when a user has no profile record or
\* more than one.
C15_OneRowPerTransaction ==
    Returned =>
        /\ Len(computed) = Len(transactions_df)
        /\ \A k \in 1..Len(transactions_df) :
              Cardinality(RowsOf(transactions_df[k].txn_id)) = 1

\* what does hold: a transaction has one row per profile record of its user,
\* and one row when the user has none
C15_OneRowPerMatch ==
    Returned =>
        \A k \in 1..Len(transactions_df) :
            Cardinality(RowsOf(transactions_df[k].txn_id)) =
                (IF ProfilesOf(transactions_df[k].user_id) = {} THEN 1
                 ELSE Cardinality(ProfilesOf(transactions_df[k].user_id)))

\* a transaction whose user has no profile record: one row, income missing
C15_MissingProfileReached ==
    /\ Returned
    /\ \E k \in 1..Len(transactions_df) :
          /\ ProfilesOf(transactions_df[k].user_id) = {}
          /\ \A i \in RowsOf(transactions_df[k].txn_id) : computed[i].declared_income.nan

OwnTrailing(k, types) ==
    LET t == transactions_df[k]
        H == {j \in 1..Len(transactions_df) :
                 /\ transactions_df[j].user_id = t.user_id
                 /\ transactions_df[j].event_type \in types
                 /\ transactions_df[j].event_time >= t.event_time - 24
                 /\ transactions_df[j].event_time < t.event_time}
    IN  SumSeq([j \in 1..Len(transactions_df) |->
                   IF j \in H THEN Abs(transactions_df[j].amount) ELSE 0])

\* C20: in raw-event mode the amount_in_1d of a transaction is the sum of
\* |amount| over its user's own deposits and buys with event_time in
\* [t - 24h, t), and amount_out_1d the same over withdrawals and sells; the
\* transaction itself, transactions at exactly t or later and those of other
\* users add nothing.
C20_TrailingWindow ==
    pc = "computed" =>
        \A k \in 1..Len(transactions_df) :
            \A i \in RowsOf(transactions_df[k].txn_id) :
                /\ computed[i].amount_in_1d = OwnTrailing(k, {"deposit", "buy"})
                /\ computed[i].amount_out_1d = OwnTrailing(k, {"withdrawal", "sell"})

\* a deposit with, for the same user, a withdrawal of -300 exactly 24 hours
\* before it and a deposit at its own time: amount_out_1d is 300 and
\* amount_in_1d is 0
C20_Witness ==
    /\ pc = "computed"
    /\ Len(transactions_df) = 3
    /\ \A k \in 1..3 : transactions_df[k].user_id = "U1"
    /\ transactions_df[1].event_time = 24 /\ transactions_df[1].event_type = "deposit"
    /\ transactions_df[2].event_time = 0 /\ transactions_df[2].event_type = "withdrawal"
    /\ transactions_df[3].event_time = 24 /\ transactions_df[3].event_type = "deposit"
    /\ \A i \in RowsOf(3) : computed[i].amount_out_1d = 300 /\ computed[i].amount_in_1d = 0

\* the smaller of two numbers
Min2(a, b) == IF a < b THEN a ELSE b

\* the returned rows repeat the aggregations of the source rows, clamped
RoundTripAgrees ==
    \A k \in 1..Len(source_df) :
        /\ Cardinality(RowsOf(source_df[k].txn_id)) = 1
        /\ \A i \in RowsOf(source_df[k].txn_id) :
              /\ computed[i].login_count_1h = source_df[k].login_count_1h
              /\ computed[i].failed_login_1h =
                    Min2(source_df[k].failed_login_1h, source_df[k].login_count_1h)
              /\ computed[i].failed_login_1h <= computed[i].login_count_1h
              /\ computed[i].new_ip_1d = source_df[k].new_ip_1d
              /\ computed[i].geo_change_1d = source_df[k].geo_change_1d

\* C19 as stated: for source rows with unique txn_ids and any login counts
\* L >= 0, F >= 0, extract_events followed by the FeatureEngineer in raw-event
\* mode yields for every transaction login_count_1h = L, failed_login_1h =
\* min(F, L), new_ip_1d and geo_change_1d as in the source row.
C19_RoundTrip ==
    (Len(source_df) > 0 /\ pc \in {"raised", "computed"})
        => (pc = "computed" /\ RoundTripAgrees)

\* what does hold: the round trip agrees whenever the files could be loaded,
\* which is whenever some source row has a login
C19_RoundTripWhenLoaded ==
    /\ pc = "computed" => RoundTripAgrees
    /\ (Len(source_df) > 0 /\ pc \in {"raised", "computed"}) =>
          (pc = "computed" <=> \E k \in 1..Len(source_df) : source_df[k].login_count_1h > 0)

\* a source row with more failed logins than logins: clamped
C19_ClampReached ==
    /\ pc = "computed"
    /\ \E k \in 1..Len(source_df) :
          /\ source_df[k].failed_login_1h = 3 /\ source_df[k].login_count_1h = 2
          /\ \A i \in RowsOf(source_df[k].txn_id) : computed[i].failed_login_1h = 2

----------------------------------------------------------------------------
(* Properties of Pipeline.run *)

\* the run is over: it returned or it raised
RunEnded == pc \in {"done", "raised"}

IsPrefix(a, b) == Len(a) <= Len(b) /\ a = SubSeq(b, 1, Len(a))

\* the stages ran in the order features, scoring, alerts, cases, and the case
\* builder received the whole alert list of the finished alert stage
StagesInOrder ==
    /\ IsPrefix(stage_log, <<"features", "scoring", "alerts", "cases">>)
    /\ "cases" \in Range(stage_log) =>
          /\ "alerts" \in Range(stage_log)
          /\ [i \in 1..Len(alerts) |-> alerts[i].alert_id]
                = [i \in 1..Len(created) |-> created[i].alert_id]
          /\ Len(created) = Cardinality({i \in 1..Len(scored_df) : scored_df[i].is_anomaly})

\* C17 as stated: the stages of a run go strictly in the order features,
\* scoring, alerts, cases, the case builder only ever receives the complete
\* alert list of a finished alert stage, and when the run is over either both
\* the alerts and the cases of the run have been written or neither has, also
\* when the run raised in a stage or while writing.
C17_StageAtomicity ==
    /\ StagesInOrder
    /\ RunEnded => (output.alerts = Nothing <=> output.cases = Nothing)

\* what does hold: the stage order and the complete hand-over; a run that
\* raises in a stage writes nothing; a written cases.json comes with the
\* alerts.json of the same run
C17_StagesThenWrites ==
    /\ StagesInOrder
    /\ output.alerts # Nothing => stage_log = <<"features", "scoring", "alerts", "cases">>
    /\ output.cases # Nothing => output.alerts = Some(created) /\ output.cases = Some(cases)

\* a run that wrote alerts.json with an alert in it and raised on cases.json
C17_AlertsWithoutCases ==
    /\ pc = "raised"
    /\ output.alerts # Nothing /\ output.cases = Nothing
    /\ Len(created) > 0

----------------------------------------------------------------------------
(* Properties of the FeatureEngineer on missing and zero incomes *)

\* compute_features raised (load_from_raw_events had loaded a transaction)
ComputeRaised == pc = "raised" /\ transactions_df # <<>>

\* the loaded transactions whose user has no profile record
Unprofiled == {k \in 1..Len(transactions_df) : ProfilesOf(transactions_df[k].user_id) = {}}

\* the denominator the ratio is to be divided by: declared_income, at least 1
Guarded(income) == IF income < 1 THEN 1 ELSE income

\* C21 as stated: a transaction whose user has no profile does not make
\* compute_features raise and is not dropped, its amount_to_income_ratio is a
\* defined number, amount_abs over a strictly positive denominator, and a
\* declared_income of 0 never divides by zero.
C21_MissingProfileFailSoft ==
    /\ ~ComputeRaised
    /\ Returned =>
          /\ \A k \in Unprofiled :
                /\ RowsOf(transactions_df[k].txn_id) # {}
                /\ \A i \in RowsOf(transactions_df[k].txn_id) :
                      ~computed[i].amount_to_income_ratio.nan
          /\ \A i \in 1..Len(computed) :
                /\ computed[i].amount_to_income_ratio.v[2] > 0
                /\ ~computed[i].declared_income.nan =>
                      computed[i].amount_to_income_ratio.v =
                          Reduce(computed[i].amount_abs, Guarded(computed[i].declared_income.v))

\* what does hold: when the profile table has a record, a transaction
\* without one keeps its row, with a missing ratio; a declared income of 0 is
\* divided as 1
C21_KeptWithMissingRatio ==
    Returned =>
        /\ \A k \in Unprofiled :
              /\ Cardinality(RowsOf(transactions_df[k].txn_id)) = 1
              /\ \A i \in RowsOf(transactions_df[k].txn_id) :
                    computed[i].amount_to_income_ratio.nan /\ computed[i].is_cross_border = 1
        /\ \A i \in 1..Len(computed) :
              ~computed[i].declared_income.nan =>
                  computed[i].amount_to_income_ratio =
                      [nan |-> FALSE,
                       v |-> Reduce(computed[i].amount_abs, Guarded(computed[i].declared_income.v))]

\* a returned row with declared_income 0: the ratio is amount_abs itself
C21_ZeroIncomeReached ==
    /\ Returned
    /\ \E i \in 1..Len(computed) :
          /\ computed[i].declared_income = Num(0)
          /\ computed[i].amount_to_income_ratio.v = Frac(computed[i].amount_abs, 1)

\* compute_features raised on transactions none of whose users has a profile
C21_EmptyProfilesRaise == ComputeRaised /\ profiles_df = <<>> /\ fe_error = "KeyError"

----------------------------------------------------------------------------
(* Properties of the time gap feature *)

\* the loaded transactions of the user of row i of the returned table that
\* come before it in the order of (event_time, position in the returned table)
EarlierOwn(i) ==
    {j \in 1..Len(computed) : j < i /\ computed[j].user_id = computed[i].user_id}

\* seconds between row i and the latest earlier row of its user
SecondsSincePrevious(i) ==
    LET j == CHOOSE j \in EarlierOwn(i) : \A l \in EarlierOwn(i) : l <= j
    IN  3600 * (computed[i].event_time - computed[j].event_time)

\* the gaps, in seconds, between consecutive transactions of one user
DatasetGaps ==
    LET I == {i \in 1..Len(computed) : EarlierOwn(i) # {}}
        RECURSIVE List(_)
        List(S) == IF S = {} THEN <<>>
                   ELSE LET i == CHOOSE i \in S : TRUE
                        IN  <<SecondsSincePrevious(i)>> \o List(S \ {i})
    IN  List(I)

\* C22 as stated, for the table FeatureEngineer.compute_features returns: the
\* number log1p is applied to (gap_log holds it in hundredths, GapArg) is, for
\* a transaction that is not its user's first, the number of seconds since
\* that user's previous transaction, and for a user's first transaction the
\* median of the gaps between consecutive transactions in the data.
C22_GapInSeconds ==
    \A i \in 1..Len(computed) :
        IF EarlierOwn(i) # {}
        THEN computed[i].gap_log = 100 * SecondsSincePrevious(i)
        ELSE DatasetGaps # <<>> => 2 * computed[i].gap_log = 100 * Median2(DatasetGaps)

\* what the FeatureEngineer does: the gap in hours, at least 0.01 hours, and
\* 24 hours for a user's first transaction
C22_GapInHours ==
    \A i \in 1..Len(computed) :
        IF EarlierOwn(i) # {}
        THEN /\ 36 * computed[i].gap_log >= SecondsSincePrevious(i)
             /\ SecondsSincePrevious(i) > 0 =>
                   36 * computed[i].gap_log = SecondsSincePrevious(i)
             /\ SecondsSincePrevious(i) = 0 => computed[i].gap_log = 1
        ELSE computed[i].gap_log = 2400

\* what train_model.engineer_features does on the same transactions: seconds
\* since the previous transaction, and the median gap for a first transaction
C22_TrainingGapInSeconds ==
    \A i \in 1..Len(computed) :
        IF EarlierOwn(i) # {}
        THEN gap_seconds(computed, i) = Num(2 * SecondsSincePrevious(i))
        ELSE DatasetGaps # <<>> => gap_seconds(computed, i) = Num(Median2(DatasetGaps))

\* a user's second transaction 10 hours after the first, and another user's
\* first transaction: the FeatureEngineer feeds 10 and 24, the training code
\* 36000 and 36000
C22_SkewReached ==
    /\ Len(computed) = 3
    /\ \E i, k \in 1..3 :
          /\ EarlierOwn(i) # {} /\ SecondsSincePrevious(i) = 36000
          /\ computed[i].gap_log = 1000
          /\ gap_seconds(computed, i) = Num(72000)
          /\ EarlierOwn(k) = {} /\ computed[k].gap_log = 2400
          /\ DatasetGaps = <<36000>>
          /\ gap_seconds(computed, k) = Num(72000)

----------------------------------------------------------------------------
(* Properties of the income rule of AlertCreator._infer_fraud_type *)

\* the row matches none of rules 1-3 and declares a positive income
ReachesIncomeRule ==
    /\ ~Contains(<<"R", "I", "N", "G">>, Upper(row.user_id))
    /\ ~Contains(<<"M", "U", "L", "T", "I">>, Upper(row.user_id))
    /\ row.failed_login_1h < 3
    /\ ~(row.geo_change_1d = 1 /\ row.new_ip_1d = 1)
    /\ ~row.declared_income.nan
    /\ row.declared_income.v > 0

C23_BoundaryReached ==
    /\ pc = "inferred"
    /\ ReachesIncomeRule
    /\ row.declared_income = Num(20000) /\ row.amount = 10000
    /\ inferred[1] # "income_anomaly"

----------------------------------------------------------------------------
(* Properties of the sign of amount *)

\* the row handed to _infer_fraud_type with the sign of its amount changed
Mirrored(r) == [r EXCEPT !.amount = 0 - r.amount]

\* C24 as stated, for AlertCreator: two rows that are identical except for the
\* sign of amount get the same inferred fraud type (the income rule and the
\* structuring band apply to |amount|).
C24_AmountAsMagnitude ==
    pc = "inferred" => _infer_fraud_type(Mirrored(row))[1] = inferred[1]

\* what does hold: the sign of amount matters to the income rule and to the
\* structuring band only, and only a positive amount fires them
C24_SignMattersToTwoRules ==
    (pc = "inferred" /\ _infer_fraud_type(Mirrored(row)) # inferred) =>
        \/ inferred[3] \in {"INCOME_EXCEEDS_DECLARATION", "STRUCTURING_PATTERN"} /\ row.amount > 0
        \/ /\ _infer_fraud_type(Mirrored(row))[3]
                  \in {"INCOME_EXCEEDS_DECLARATION", "STRUCTURING_PATTERN"}
           /\ row.amount < 0

\* a withdrawal of -9000 against a declared income of 1000 is not an income
\* anomaly, the deposit of 9000 is
C24_SignChangesType ==
    /\ pc = "inferred"
    /\ row.amount = 0 - 9000 /\ row.declared_income = Num(1000)
    /\ inferred[1] # "income_anomaly"
    /\ _infer_fraud_type(Mirrored(row))[1] = "income_anomaly"

\* the FeatureEngineer's half of C24: with the sign of every amount changed,
\* compute_features returns the same amount_abs and amount_to_income_ratio
C24_FeaturesUseMagnitude ==
    LET neg == [k \in 1..Len(transactions_df) |->
                   [transactions_df[k] EXCEPT !.amount = 0 - transactions_df[k].amount]]
        out == compute_features(neg, profiles_df, auth_events_df, network_events_df)
    IN  Returned =>
            /\ Len(out) = Len(computed)
            /\ \A i \in 1..Len(computed) :
                  /\ out[i].txn_id = computed[i].txn_id
                  /\ out[i].amount_abs = computed[i].amount_abs
                  /\ out[i].amount_to_income_ratio = computed[i].amount_to_income_ratio

----------------------------------------------------------------------------
(* Properties of the dominant type of a per-user case *)

\* the inferred types of the alerts of user u that no ring consumed
LeftoverTypes(u) ==
    LET mine == SelectSeq(alerts, LAMBDA a : a.alert_id \in {alerts[i].alert_id : i \in LeftoverOf(u)})
    IN  [i \in 1..Len(mine) |-> mine[i].fraud_type_inferred]

\* user u's leftover alerts all share one account_id
OneAccount(u) == Cardinality({alerts[i].account_id : i \in LeftoverOf(u)}) = 1

\* the type of user u's case is one of the most frequent inferred types
MostFrequentChosen(u) ==
    \A k \in UserCasesOf(u) :
        /\ cases[k].fraud_type \in Range(LeftoverTypes(u))
        /\ \A t \in Range(LeftoverTypes(u)) :
              Count(LeftoverTypes(u), t) <= Count(LeftoverTypes(u), cases[k].fraud_type)

\* C25 as stated: for a per-user case whose alerts all share one account_id
\* the fraud_type is an inferred type that occurs at least as often among the
\* case's alerts as every other, and for a given group of alerts the chosen
\* type is the same on every run, whatever order the run iterates the set of
\* types in.
C25_DominantTypeDeterministic ==
    pc = "built" =>
        \A u \in CBUsers :
            OneAccount(u) =>
                /\ MostFrequentChosen(u)
                /\ \A o \in SetOrders :
                      LET other == build_cases(alerts, o)
                      IN  \A k \in UserCasesOf(u) : other[k].fraud_type = cases[k].fraud_type

\* what does hold: the chosen type is a most frequent one, and when one type
\* is strictly the most frequent every run chooses it
C25_MostFrequent ==
    pc = "built" =>
        \A u \in CBUsers :
            OneAccount(u) =>
                /\ MostFrequentChosen(u)
                /\ \A k \in UserCasesOf(u) :
                      (\A t \in Range(LeftoverTypes(u)) \ {cases[k].fraud_type} :
                          Count(LeftoverTypes(u), t) < Count(LeftoverTypes(u), cases[k].fraud_type))
                      => \A o \in SetOrders :
                            build_cases(alerts, o)[k].fraud_type = cases[k].fraud_type

\* a user with one fraud_ring alert and one account_takeover alert on one
\* account: the case takes the type the run's set order puts first
C25_TieFollowsSetOrder ==
    /\ pc = "built"
    /\ Len(alerts) = 2 /\ Len(cases) = 1
    /\ alerts[1].user_id = alerts[2].user_id
    /\ alerts[1].account_id = alerts[2].account_id
    /\ alerts[1].fraud_type_inferred = "fraud_ring"
    /\ alerts[2].fraud_type_inferred = "account_takeover"
    /\ set_order[1] = "account_takeover"
    /\ cases[1].fraud_type = "account_takeover"

----------------------------------------------------------------------------
(* Properties of the alert-count bonus *)

\* min(5 * n, 20)
CappedBonus(n) == IF 5 * n < 20 THEN 5 * n ELSE 20

\* C26: the alert-count bonus of a case with n alerts is min(5 * n, 20) points:
\* the case_score is never more than 20 points above ((avg + max) / 2) * 100,
\* and a case whose alerts all have confidence 0 has case_score min(5 * n, 20),
\* at most 20, and risk_level LOW however many alerts it has.
C26_BonusCapped ==
    pc = "built" =>
        \A k \in 1..Len(cases) :
            LET cs == ConfidencesOf(k)
                n  == Len(cs)
                mx == CHOOSE m \in Range(cs) : \A y \in Range(cs) : y <= m
            IN  /\ n = cases[k].alert_count
                \* score <= (avg + max) / 2 / 10 + 20, confidences in thousandths
                /\ cases[k].case_score * 20 * n <= SumSeq(cs) + n * mx + 400 * n
                /\ Range(cs) = {0} =>
                      /\ cases[k].case_score = CappedBonus(n)
                      /\ cases[k].case_score <= 20
                      /\ cases[k].risk_level = "LOW"

\* a case of five alerts of confidence 0: 20 points, LOW
C26_Witness ==
    /\ pc = "built"
    /\ \E k \in 1..Len(cases) :
          /\ cases[k].alert_count = 5
          /\ Range(ConfidencesOf(k)) = {0}
          /\ cases[k].case_score = 20
          /\ cases[k].risk_level = "LOW"

----------------------------------------------------------------------------
(* Properties of fraud_ring cases *)

\* C27 as stated: every returned case with fraud_type fraud_ring spans at
\* least two distinct users who share a device: its user_id list and its
\* ring_members have at least two entries and it carries a shared_device; a
\* case built in pass 2 for a single user is never a fraud_ring case.
C27_RingCasesSpanUsers ==
    pc = "built" =>
        \A k \in 1..Len(cases) :
            cases[k].fraud_type = "fraud_ring" =>
                /\ Cardinality(cases[k].user_id) >= 2
                /\ Cardinality(cases[k].ring_members) >= 2
                /\ cases[k].shared_device # None

\* what does hold: the cases of pass 1 are fraud_ring cases of at least two
\* users, listed both as user_id and as ring_members; a fraud_ring case of
\* pass 2 has one user and an inferred type fraud_ring among its alerts
C27_PassOneRingsSpanUsers ==
    pc = "built" =>
        \A k \in 1..Len(cases) :
            IF cases[k].shared_device # None
            THEN /\ cases[k].fraud_type = "fraud_ring"
                 /\ Cardinality(cases[k].ring_members) >= 2
                 /\ cases[k].user_id = cases[k].ring_members
            ELSE /\ Cardinality(cases[k].user_id) = 1
                 /\ cases[k].ring_members = {}
                 /\ cases[k].fraud_type = "fraud_ring" =>
                       \E i \in 1..Len(alerts) :
                           /\ alerts[i].alert_id \in Range(cases[k].alert_ids)
                           /\ alerts[i].fraud_type_inferred = "fraud_ring"

\* one alert, inferred fraud_ring, on a device nobody shares: pass 2 returns a
\* fraud_ring case of one user without ring_members and shared_device
C27_SingleUserRingCase ==
    /\ pc = "built"
    /\ Len(alerts) = 1 /\ alerts[1].fraud_type_inferred = "fraud_ring"
    /\ alerts[1].evidence.device_id = "DEV_X"
    /\ Len(cases) = 1
    /\ cases[1].fraud_type = "fraud_ring"
    /\ cases[1].user_id = {alerts[1].user_id}
    /\ cases[1].ring_members = {} /\ cases[1].shared_device = None

----------------------------------------------------------------------------
(* Properties of the threshold and the severity together *)

\* C28: in a run whose decision threshold is at least 0.3, the pipeline's
\* default, every alert has severity MEDIUM, HIGH or CRITICAL and none LOW; a
\* LOW alert arises only under a threshold below 0.3.
C28_NoLowAtDefaultThreshold ==
    Scored =>
        /\ result.threshold >= PipelineDefaultThreshold =>
              \A k \in 1..Len(created) : created[k].severity \in {"MEDIUM", "HIGH", "CRITICAL"}
        /\ (\E k \in 1..Len(created) : created[k].severity = "LOW") =>
              result.threshold < PipelineDefaultThreshold

\* a pipeline run without --threshold on rows scored 0, 0.31 and 1: two
\* alerts, MEDIUM and CRITICAL
C28_Witness ==
    /\ Scored
    /\ call.by = "pipeline" /\ call.override = Nothing
    /\ result.threshold = PipelineDefaultThreshold
    /\ Len(result.rows) = 3 /\ Len(created) = 2
    /\ \E j \in 1..Len(result.rows) :
          /\ HasScore(result.rows[j], 31)
          /\ \E k \in 1..Len(created) : /\ created[k].txn_id = result.rows[j].txn_id
                                        /\ created[k].severity = "MEDIUM"
    /\ \E k \in 1..Len(created) : created[k].severity = "CRITICAL"

\* a run with threshold 0.3: the row scored exactly 0.3 gets no alert
C28_BoundaryReached ==
    /\ Scored
    /\ result.threshold = 30
    /\ \E i \in 1..Len(result.rows) :
          /\ HasScore(result.rows[i], 30)
          /\ \A k \in 1..Len(created) : created[k].txn_id # result.rows[i].txn_id

\* a run with threshold 0: the row scored 0.3 gets a LOW alert
C28_LowReached ==
    /\ Scored
    /\ result.threshold = 0
    /\ \E i \in 1..Len(result.rows) :
          /\ HasScore(result.rows[i], 30)
          /\ \E k \in 1..Len(created) : /\ created[k].txn_id = result.rows[i].txn_id
                                        /\ created[k].severity = "LOW"

----------------------------------------------------------------------------
(* Properties of flagging relative to the batch *)

\* the raw scores of the returned table
RawOf == {result.rows[i].raw_score : i \in 1..Len(result.rows)}

\* the rows with the lowest raw score (the most anomalous) and with the highest
MostAnomalous  == {i \in 1..Len(result.rows) : \A x \in RawOf : result.rows[i].raw_score <= x}
LeastAnomalous == {i \in 1..Len(result.rows) : \A x \in RawOf : result.rows[i].raw_score >= x}

\* C29: in a batch with at least two distinct raw scores the most anomalous
\* row has anomaly_score 1 and the least anomalous 0, so that under any
\* threshold in [0, 1) at least one row is flagged and the least anomalous is
\* not; in a batch whose raw scores are all equal, a single row included,
\* every anomaly_score is 0 and no row is flagged under any threshold >= 0.
C29_BatchRelativeFlagging ==
    (Scored /\ 0 <= result.threshold /\ result.threshold < 100) =>
        IF Cardinality(RawOf) >= 2
        THEN /\ \A i \in MostAnomalous :
                   /\ result.rows[i].anomaly_score[1] = result.rows[i].anomaly_score[2]
                   /\ result.rows[i].is_anomaly
             /\ \A i \in LeastAnomalous :
                   /\ result.rows[i].anomaly_score[1] = 0
                   /\ ~result.rows[i].is_anomaly
             /\ \E i \in 1..Len(result.rows) : result.rows[i].is_anomaly
        ELSE \A i \in 1..Len(result.rows) :
                   /\ result.rows[i].anomaly_score[1] = 0
                   /\ ~result.rows[i].is_anomaly

\* a batch of raw scores -31 and 0 under threshold 0.5: the first row is
\* scored 1 and flagged, the second 0
C29_Witness ==
    /\ Scored
    /\ result.threshold = 50
    /\ Len(result.rows) = 2
    /\ result.rows[1].raw_score = 0 - 31 /\ result.rows[2].raw_score = 0
    /\ HasScore(result.rows[1], 100) /\ result.rows[1].is_anomaly
    /\ HasScore(result.rows[2], 0) /\ ~result.rows[2].is_anomaly

\* a single row with raw score -100 under threshold 0: scored 0, not flagged
C29_SingleRowReached ==
    /\ Scored
    /\ result.threshold = 0
    /\ Len(result.rows) = 1
    /\ result.rows[1].raw_score = 0 - 100
    /\ HasScore(result.rows[1], 0) /\ ~result.rows[1].is_anomaly

----------------------------------------------------------------------------
(* Properties of alerts without a known device *)

\* the alerts of the batch whose evidence has no device_id or the placeholder
Deviceless ==
    {i \in 1..Len(alerts) :
        \/ "device_id" \notin DOMAIN alerts[i].evidence
        \/ alerts[i].evidence.device_id = "unknown"}

\* the cases that list alert i
CasesListing(i) == {k \in 1..Len(cases) : alerts[i].alert_id \in Range(cases[k].alert_ids)}

\* C30: an alert whose evidence has no device_id, or the placeholder
\* "unknown", is in no case that pass 1 built, and is in the pass 2 case of
\* its own user, whose alerts are all that user's, also when several users
\* have such alerts.
C30_DevicelessNeverRing ==
    pc = "built" =>
        \A i \in Deviceless :
            /\ Cardinality(CasesListing(i)) = 1
            /\ \A k \in CasesListing(i) :
                  /\ cases[k].shared_device = None
                  /\ cases[k].ring_members = {}
                  /\ cases[k].user_id = {alerts[i].user_id}
                  /\ \A j \in 1..Len(alerts) :
                        alerts[j].alert_id \in Range(cases[k].alert_ids) =>
                            alerts[j].user_id = alerts[i].user_id

\* two users, one with an alert without device_id and one with an alert on
\* "unknown": two per-user cases and no ring
C30_Witness ==
    /\ pc = "built"
    /\ Len(alerts) = 2
    /\ alerts[1].user_id # alerts[2].user_id
    /\ "device_id" \notin DOMAIN alerts[1].evidence
    /\ "device_id" \in DOMAIN alerts[2].evidence /\ alerts[2].evidence.device_id = "unknown"
    /\ Len(cases) = 2
    /\ \A k \in 1..2 : cases[k].shared_device = None /\ cases[k].alert_ids = <<k>>

\* a ring on a device beside a deviceless alert of one of its users: the
\* deviceless alert stays out of the ring case
C30_BesideRingReached ==
    /\ pc = "built"
    /\ Len(alerts) = 3 /\ Len(cases) = 2
    /\ Deviceless = {3}
    /\ cases[1].shared_device = "DEV_X" /\ cases[1].alert_ids = <<1, 2>>
    /\ cases[2].alert_ids = <<3>>

====
